---- MODULE Spec2Model ----
(***************************************************************************)
(* State-machine model of the Batfish visualisation backend: upload        *)
(* intake (FileService), the engine session gateway (BatfishService), the  *)
(* snapshot / topology / verification services and their HTTP handlers.    *)
(*                                                                         *)
(* Text is modelled as a sequence of one-character strings, a path as a    *)
(* sequence of components (each a text) below the filesystem root.         *)
(***************************************************************************)
EXTENDS Integers, Sequences, FiniteSets, TLC

VARIABLES
    fs,       \* the filesystem: [dirs, files], two sets of paths
    up,       \* the FileService.save_uploaded_files call in progress
    bf,       \* the service objects, their session handles and the engine
    api,      \* the POST /snapshots request in progress
    vr,       \* the wall clock and the verification call last made
    nd        \* the node-detail call last made

vars == <<fs, up, bf, api, vr, nd>>

-----------------------------------------------------------------------------
(* Bounds of the model *)

\* longest text enumerated exhaustively as a name
MaxLen == 2
\* files of one upload request
MaxFiles == 3
\* files of one bulk upload request (sizes only)
MaxBulk == 11
\* engine calls one operation may have answered before the engine is lost
MaxContacts == 4
\* more engine calls than any operation makes: the engine is not lost
Enough == 40
\* latest reading of the wall clock, in milliseconds
MaxClock == 4
\* rows of an engine answer
MaxRows == 3

-----------------------------------------------------------------------------
(* Program constants *)

MAX_FILE_SIZE_MB == 10
MAX_TOTAL_SIZE_MB == 100
MAX_FILE_SIZE_BYTES == MAX_FILE_SIZE_MB * 1024 * 1024
MAX_TOTAL_SIZE_BYTES == MAX_TOTAL_SIZE_MB * 1024 * 1024

-----------------------------------------------------------------------------
(* Text *)

NL == "\n"
AlnumChars ==
    {"a", "b", "c", "e", "f", "g", "h", "i", "n", "o", "s", "t", "u", "x", "z",
     "A", "B", "Z", "0", "9"}
\* [a-zA-Z0-9_-]
NameClass == AlnumChars \cup {"_", "-"}
\* [a-zA-Z0-9_.-]
FileClass == NameClass \cup {"."}
Whitespace == {" ", NL}

None == "None"

\* n copies of character c
Rep(c, n) == [i \in 1..n |-> c]

\* all texts over alphabet A of length 0..n
TextsUpTo(A, n) == UNION {[1..k -> A] : k \in 0..n}

\* Python: not s.strip()
IsBlank(s) == \A i \in 1..Len(s) : s[i] \in Whitespace

\* Python: re.match(r'^[cls]+$', s). '$' also matches just before one
\* trailing newline, so the last character may be a newline after at least
\* one character of the class.
ReMatchClassPlus(s, cls) ==
    /\ Len(s) >= 1
    /\ LET body == IF Len(s) >= 2 /\ s[Len(s)] = NL
                   THEN SubSeq(s, 1, Len(s) - 1) ELSE s
       IN  \A i \in 1..Len(body) : body[i] \in cls

\* index of the last "/" of s, 0 when there is none
LastSlash(s) ==
    IF \E i \in 1..Len(s) : s[i] = "/"
    THEN CHOOSE i \in 1..Len(s) : s[i] = "/" /\ \A j \in (i+1)..Len(s) : s[j] # "/"
    ELSE 0

\* os.path.basename (POSIX)
basename(s) == SubSeq(s, LastSlash(s) + 1, Len(s))

\* str.startswith
StartsWith(s, p) == Len(p) <= Len(s) /\ SubSeq(s, 1, Len(p)) = p

-----------------------------------------------------------------------------
(* Paths and the filesystem *)

\* index of the first "/" of s, 0 when there is none
FirstSlash(s) ==
    IF \E i \in 1..Len(s) : s[i] = "/"
    THEN CHOOSE i \in 1..Len(s) : s[i] = "/" /\ \A j \in 1..(i-1) : s[j] # "/"
    ELSE 0

RECURSIVE SplitSlash(_)
\* the components of text s, split at "/"
SplitSlash(s) ==
    LET i == FirstSlash(s)
    IN  IF i = 0 THEN <<s>>
        ELSE <<SubSeq(s, 1, i - 1)>> \o SplitSlash(SubSeq(s, i + 1, Len(s)))

RECURSIVE Walk(_, _)
\* Path.resolve(): "" and "." are dropped, ".." steps to the parent
Walk(p, comps) ==
    IF comps = <<>> THEN p
    ELSE LET c == Head(comps)
         IN  IF c = <<>> \/ c = <<".">> THEN Walk(p, Tail(comps))
             ELSE IF c = <<".", ".">>
                  THEN Walk(IF p = <<>> THEN p ELSE SubSeq(p, 1, Len(p) - 1), Tail(comps))
                  ELSE Walk(Append(p, c), Tail(comps))

\* (base / name).resolve(): an absolute name replaces the base
Resolve(base, name) ==
    IF Len(name) >= 1 /\ name[1] = "/"
    THEN Walk(<<>>, SplitSlash(name))
    ELSE Walk(base, SplitSlash(name))

RECURSIVE PathText(_)
PathText(p) == IF p = <<>> THEN <<>> ELSE <<"/">> \o Head(p) \o PathText(Tail(p))

\* str(path)
PathStr(p) == IF p = <<>> THEN <<"/">> ELSE PathText(p)

\* FileService.temp_dir: the staging root, an absolute resolved path
TempDir == << <<"u">> >>

\* path q is p or lies below p
IsUnder(q, p) == Len(q) >= Len(p) /\ SubSeq(q, 1, Len(p)) = p

Ancestors(p) == {SubSeq(p, 1, k) : k \in 1..Len(p)}

\* Path.mkdir(parents=True, exist_ok=True)
mkdir(f, p) == [f EXCEPT !.dirs = @ \cup Ancestors(p)]

\* Path.exists()
exists(f, p) == p \in f.dirs \/ p \in f.files

\* open(path, "wb"): creates or truncates the file
create(f, p) == [f EXCEPT !.files = @ \cup {p}]

\* shutil.rmtree(p) when it succeeds
rmtree(f, p) ==
    [dirs |-> {d \in f.dirs : ~IsUnder(d, p)},
     files |-> {x \in f.files : ~IsUnder(x, p)}]

\* shutil.rmtree(p) when it raises part-way: the directories and the files
\* keep below p are still there
rmtreeFailed(f, p, keep) ==
    [f EXCEPT !.files = {x \in f.files : ~IsUnder(x, p) \/ x \in keep}]

\* FileService.__init__: the staging root exists
FsInit == [dirs |-> {TempDir}, files |-> {}]

-----------------------------------------------------------------------------
(* FileService: upload intake *)

\* the "configs" subdirectory Batfish expects
ConfigsName == <<"c", "o", "n", "f", "i", "g", "s">>

\* FileService._sanitize_filename: the sanitized name, or a ValueError
_sanitize_filename(filename) ==
    IF filename = <<>> \/ IsBlank(filename)
    THEN [ok |-> FALSE, name |-> <<>>]
    ELSE LET base == basename(filename)
         IN  IF ~ReMatchClassPlus(base, FileClass)
             THEN [ok |-> FALSE, name |-> base]
             ELSE IF base[1] = "."
                  THEN [ok |-> FALSE, name |-> base]
                  ELSE [ok |-> TRUE, name |-> base]

\* what shutil.rmtree(p) may do on filesystem f: succeed, or raise leaving
\* the directories and any subset of the files below p
RmOutcomes(f, p) ==
    {[ok |-> TRUE, keep |-> {}]}
    \cup {[ok |-> FALSE, keep |-> k] : k \in SUBSET {x \in f.files : IsUnder(x, p)}}

\* a cleanup that removes the staging root's whole content (the fault C28
\* must detect)
cleanup_snapshot_dir_Root(f, snapshot_name, rm) ==
    [dirs |-> {d \in f.dirs : ~IsUnder(d, TempDir) \/ d = TempDir},
     files |-> {x \in f.files : ~IsUnder(x, TempDir)}]

\* a cleanup that removes nothing (the fault C2 must detect)
cleanup_snapshot_dir_Noop(f, snapshot_name, rm) == f

\* FileService.cleanup_snapshot_dir when rmtree behaves as rm: a failing
\* rmtree is logged and swallowed
cleanup_snapshot_dir(f, snapshot_name, rm) ==
    LET snapshot_dir == Resolve(TempDir, snapshot_name)
    IN  IF exists(f, snapshot_dir)
        THEN IF rm.ok THEN rmtree(f, snapshot_dir)
             ELSE rmtreeFailed(f, snapshot_dir, rm.keep)
        ELSE f

\* no call in progress
UpIdle ==
    [pc |-> "idle", snapshot_name |-> <<>>, snapshot_dir |-> <<>>,
     configs_dir |-> <<>>, n |-> 0, saved_files |-> 0, total_size |-> 0,
     cur |-> [filename |-> <<>>, size |-> 0], result |-> None,
     error |-> None, fs0 |-> FsInit, touched |-> {}, rm |-> None]

\* size checks that reject a file at the ceiling too (the fault C5 must detect)
SizeCheck_AtCeiling(file_size, total_size) ==
    IF file_size >= MAX_FILE_SIZE_BYTES THEN "file_size"
    ELSE IF total_size + file_size >= MAX_TOTAL_SIZE_BYTES THEN "total_size"
    ELSE None

\* the size checks of the loop: the ValueError raised, or None
SizeCheck(file_size, total_size) ==
    IF file_size > MAX_FILE_SIZE_BYTES THEN "file_size"
    ELSE IF total_size + file_size > MAX_TOTAL_SIZE_BYTES THEN "total_size"
    ELSE None

\* the snapshot directory of save_uploaded_files; ok is FALSE when the prefix
\* check on the resolved path raises ValueError
SnapshotDir(snapshot_name) ==
    LET snapshot_dir == Resolve(TempDir, snapshot_name)
    IN  [ok |-> StartsWith(PathStr(snapshot_dir), PathStr(TempDir)),
         path |-> snapshot_dir]

\* save_uploaded_files, up to the loop: the argument checks and the two mkdir
SaveBegin(snapshot_name, has_files) ==
    /\ up.pc = "idle"
    /\ LET checked == SnapshotDir(snapshot_name)
           snapshot_dir == checked.path
           configs_dir == Append(snapshot_dir, ConfigsName)
           u0 == [UpIdle EXCEPT !.snapshot_name = snapshot_name, !.fs0 = fs]
       IN  IF ~has_files
           THEN /\ up' = [u0 EXCEPT !.pc = "returned", !.result = "ValueError",
                                    !.error = "no_files"]
                /\ fs' = fs
           ELSE IF snapshot_name = <<>> \/ IsBlank(snapshot_name)
           THEN /\ up' = [u0 EXCEPT !.pc = "returned", !.result = "ValueError",
                                    !.error = "no_name"]
                /\ fs' = fs
           ELSE IF ~checked.ok
           THEN /\ up' = [u0 EXCEPT !.pc = "returned", !.result = "ValueError",
                                    !.error = "traversal"]
                /\ fs' = fs
           ELSE /\ fs' = mkdir(mkdir(fs, snapshot_dir), configs_dir)
                /\ up' = [u0 EXCEPT !.pc = "loop",
                                    !.snapshot_dir = snapshot_dir,
                                    !.configs_dir = configs_dir,
                                    !.touched = {snapshot_dir, configs_dir}]

\* the except branch of save_uploaded_files: cleanup, then IOError
SaveFail(u, f, error) ==
    \E rm \in RmOutcomes(f, Resolve(TempDir, u.snapshot_name)) :
        /\ fs' = cleanup_snapshot_dir(f, u.snapshot_name, rm)
        /\ up' = [u EXCEPT !.pc = "returned", !.result = "IOError",
                           !.error = error,
                           !.rm = IF rm.ok THEN "removed" ELSE "failed"]

\* one iteration of the loop of save_uploaded_files on the next file of the
\* request; io is what reading and writing it meets
SaveFile(file, io) ==
    /\ up.pc = "loop"
    /\ LET u == [up EXCEPT !.n = @ + 1, !.cur = file]
           san == _sanitize_filename(file.filename)
           size_error == SizeCheck(file.size, up.total_size)
           total == up.total_size + file.size
           file_path == Append(up.configs_dir, san.name)
           file_path_resolved == Resolve(up.configs_dir, san.name)
       IN  IF file.filename = <<>>
           THEN /\ up' = u
                /\ fs' = fs
           ELSE IF ~san.ok THEN SaveFail(u, fs, "filename")
           ELSE IF io = "read_fails" THEN SaveFail(u, fs, "read")
           ELSE IF size_error = "file_size" THEN SaveFail(u, fs, "file_size")
           ELSE IF size_error = "total_size"
                THEN SaveFail([u EXCEPT !.total_size = total], fs, "total_size")
           ELSE IF ~StartsWith(PathStr(file_path_resolved), PathStr(up.configs_dir))
                THEN SaveFail([u EXCEPT !.total_size = total], fs, "file_traversal")
           ELSE IF io = "open_fails"
                THEN SaveFail([u EXCEPT !.total_size = total], fs, "open")
           ELSE IF io = "write_fails"
                THEN SaveFail([u EXCEPT !.total_size = total,
                                        !.touched = @ \cup {file_path}],
                              create(fs, file_path), "write")
           ELSE /\ fs' = create(fs, file_path)
                /\ up' = [u EXCEPT !.total_size = total,
                                   !.saved_files = @ + 1,
                                   !.touched = @ \cup {file_path}]

\* the loop is exhausted: save_uploaded_files returns snapshot_dir
SaveReturn ==
    /\ up.pc = "loop"
    /\ up.n >= 1
    /\ up' = [up EXCEPT !.pc = "returned", !.result = "ok"]
    /\ UNCHANGED fs

-----------------------------------------------------------------------------
(* The engine and the session handles (BatfishService, pybatfish Session) *)

\* the BatfishService objects of the process: the global one handed out by
\* get_batfish_service, and the two built by the topology and verification
\* API modules
Owners == {"global", "topology_api", "verification_api"}

\* networks named by requests
Networks == {"n1", "n2"}

\* no snapshot selected on a handle
NoSnapshot == <<>>

\* the selections of all handles
Selections(b) == [o \in Owners |-> <<b.net[o], b.snap[o]>>]

\* the process before the API modules are imported: no service object, no
\* handle, an empty engine
BfStart ==
    [phase |-> "import_topology", service |-> FALSE, held |-> {},
     net |-> [o \in Owners |-> None], snap |-> [o \in Owners |-> NoSnapshot],
     snapshots |-> {}, left |-> 0, log |-> <<>>,
     before |-> [o \in Owners |-> <<None, NoSnapshot>>],
     made |-> 0, ids |-> [o \in Owners |-> 0]]

\* the process once api/__init__.py has imported the API modules: the
\* topology and the verification module each hold a handle of their own
BfInit ==
    [BfStart EXCEPT !.phase = "serving",
                    !.held = {"topology_api", "verification_api"},
                    !.made = 2,
                    !.ids = [o \in Owners |->
                                CASE o = "topology_api" -> 1
                                  [] o = "verification_api" -> 2
                                  [] OTHER -> 0]]

\* engine calls answered before the engine is lost
Lefts == 0..MaxContacts \cup {Enough}

\* the engine answers the next call of the running operation
EngineCall(b) == b.left > 0
Spent(b) == [b EXCEPT !.left = @ - 1]
Ok(b) == [ok |-> TRUE, bf |-> b]
Fail(b) == [ok |-> FALSE, bf |-> b]

\* the engine state an operation starts from and the one it leaves
Begin(b, left) ==
    [b EXCEPT !.left = left, !.log = <<>>, !.before = Selections(b)]
End(b) == [b EXCEPT !.left = 0, !.before = BfStart.before]

\* get_batfish_service: the global service object is built on first call
get_batfish_service(b) == [b EXCEPT !.service = TRUE]

\* BatfishService.session: the handle held, or a new Session(host, port),
\* whose construction contacts the engine. made counts the Session objects
\* constructed in the process and ids[o] is the one o holds (0: none).
session(b, o) ==
    IF o \in b.held THEN Ok(b)
    ELSE IF EngineCall(b)
    THEN Ok(Spent([b EXCEPT !.held = @ \cup {o}, !.made = @ + 1,
                            !.ids[o] = b.made + 1]))
    ELSE Fail(b)

\* a close that keeps the reference (the fault C21 must detect)
close_Keep(b, o) == b

\* BatfishService.close: the reference is dropped, and with the Session
\* object the selections made on it
close(b, o) ==
    IF o \in b.held
    THEN [b EXCEPT !.held = @ \ {o}, !.ids[o] = 0, !.net[o] = None,
                   !.snap[o] = NoSnapshot]
    ELSE b

\* Session.set_network on the handle of o
set_network(b, o, network_name) ==
    IF EngineCall(b) THEN Ok(Spent([b EXCEPT !.net[o] = network_name]))
    ELSE Fail(b)

\* a snapshot selection that leaves the handle as it finds it (the fault C7
\* must detect)
set_snapshot_Keep(b, o, snapshot_name) ==
    IF EngineCall(b) /\ <<b.net[o], snapshot_name>> \in b.snapshots
    THEN Ok(Spent(b))
    ELSE Fail(b)

\* Session.set_snapshot on the handle of o: the snapshot must exist in the
\* selected network
set_snapshot(b, o, snapshot_name) ==
    IF EngineCall(b) /\ <<b.net[o], snapshot_name>> \in b.snapshots
    THEN Ok(Spent([b EXCEPT !.snap[o] = snapshot_name]))
    ELSE Fail(b)

\* a call evaluated by the engine, with the selection the handle carried when
\* it was dispatched and the pair named by the calling operation
Dispatch(b, o, op, kind, network_name, snapshot_name) ==
    [b EXCEPT !.log = Append(@,
        [op |-> op, kind |-> kind, owner |-> o,
         sel_network |-> b.net[o], sel_snapshot |-> b.snap[o],
         network |-> network_name, snapshot |-> snapshot_name,
         stale |-> /\ b.before[o][2] # NoSnapshot
                   /\ b.before[o] # <<network_name, snapshot_name>>])]

\* bf.q.<op>(...).answer() on the handle of o: evaluated on its selection
query(b, o, op, network_name, snapshot_name) ==
    IF EngineCall(b) /\ b.net[o] # None /\ b.snap[o] # NoSnapshot
    THEN Ok(Spent(Dispatch(b, o, op, "query", network_name, snapshot_name)))
    ELSE Fail(b)

\* Session.init_snapshot(upload, name, overwrite=False) in the selected
\* network; accepts says whether the engine takes the upload
init_snapshot(b, o, network_name, snapshot_name, accepts) ==
    IF /\ EngineCall(b) /\ accepts /\ b.net[o] # None
       /\ <<b.net[o], snapshot_name>> \notin b.snapshots
    THEN LET d == Dispatch(b, o, "init_snapshot", "command", network_name, snapshot_name)
         IN  Ok(Spent([d EXCEPT !.snapshots = @ \cup {<<b.net[o], snapshot_name>>},
                                !.snap[o] = snapshot_name]))
    ELSE Fail(b)

\* a delete_snapshot that leaves the snapshot in the engine (the fault C15
\* must detect)
bf_delete_snapshot_Keep(b, o, network_name, snapshot_name) ==
    IF /\ EngineCall(b) /\ b.net[o] # None
       /\ <<b.net[o], snapshot_name>> \in b.snapshots
    THEN Ok(Spent(Dispatch(b, o, "delete_snapshot", "command", network_name, snapshot_name)))
    ELSE Fail(b)

\* Session.delete_snapshot(name) in the selected network
bf_delete_snapshot(b, o, network_name, snapshot_name) ==
    IF /\ EngineCall(b) /\ b.net[o] # None
       /\ <<b.net[o], snapshot_name>> \in b.snapshots
    THEN LET d == Dispatch(b, o, "delete_snapshot", "command", network_name, snapshot_name)
         IN  Ok(Spent([d EXCEPT !.snapshots = @ \ {<<b.net[o], snapshot_name>>},
                                !.snap[o] = IF @ = snapshot_name THEN NoSnapshot ELSE @]))
    ELSE Fail(b)

\* the opening of every query operation: the handle, then the network, then
\* the snapshot
Select(b, o, has_handle, network_name, snapshot_name) ==
    LET s == IF has_handle THEN Ok(b) ELSE session(b, o)
    IN  IF ~s.ok THEN s
        ELSE LET n == set_network(s.bf, o, network_name)
             IN  IF ~n.ok THEN n
                 ELSE set_snapshot(n.bf, o, snapshot_name)

\* a query operation: the selection, then the query
SelectAndQuery(b, o, has_handle, op, network_name, snapshot_name) ==
    LET p == Select(b, o, has_handle, network_name, snapshot_name)
    IN  IF ~p.ok THEN p
        ELSE query(p.bf, o, op, network_name, snapshot_name)

-----------------------------------------------------------------------------
(* SnapshotService, on the global service object *)

\* what the engine holds about a snapshot: the rows of its node table and
\* the files of its parse status that did not pass
NoRows == [devices |-> 0, failed |-> 0]

\* the Snapshot record of both operations; status is the literal "COMPLETE"
Snapshot(device_count, parse_errors) ==
    [status |-> "COMPLETE", device_count |-> device_count,
     parse_errors |-> parse_errors]

\* SnapshotService.get_parse_errors: the entries for the files that did not
\* pass; any failure is swallowed and the empty list returned
get_parse_errors(b, snapshot_name, network_name, answer) ==
    LET q == SelectAndQuery(b, "global", FALSE, "fileParseStatus",
                            network_name, snapshot_name)
    IN  [bf |-> q.bf, value |-> IF q.ok THEN answer.failed ELSE 0]

\* SnapshotService._get_device_count: the rows of the node table; any
\* failure is swallowed and 0 returned
_get_device_count(b, snapshot_name, network_name, answer) ==
    LET q == SelectAndQuery(b, "global", FALSE, "nodeProperties",
                            network_name, snapshot_name)
    IN  [bf |-> q.bf, value |-> IF q.ok THEN answer.devices ELSE 0]

\* SnapshotService.get_snapshot_details: ok is FALSE where it raises
\* ValueError("Snapshot not found"), whatever failed
get_snapshot_details(b, snapshot_name, network_name, answer) ==
    LET s == session(b, "global")
        n == set_network(s.bf, "global", network_name)
        p == set_snapshot(n.bf, "global", snapshot_name)
        d == _get_device_count(p.bf, snapshot_name, network_name, answer)
        e == get_parse_errors(d.bf, snapshot_name, network_name, answer)
        q == query(e.bf, "global", "fileParseStatus", network_name,
                   snapshot_name)
    IN  IF ~s.ok THEN [ok |-> FALSE, bf |-> s.bf, snapshot |-> <<>>]
        ELSE IF ~n.ok THEN [ok |-> FALSE, bf |-> n.bf, snapshot |-> <<>>]
        ELSE IF ~p.ok THEN [ok |-> FALSE, bf |-> p.bf, snapshot |-> <<>>]
        ELSE IF ~q.ok THEN [ok |-> FALSE, bf |-> q.bf, snapshot |-> <<>>]
        ELSE [ok |-> TRUE, bf |-> q.bf,
              snapshot |-> <<Snapshot(d.value, e.value)>>]

\* config_dir.glob("*"): the entries of the directory itself, files and
\* directories alike
glob(f, dir) ==
    {q \in f.dirs \cup f.files : Len(q) = Len(dir) + 1 /\ IsUnder(q, dir)}

\* SnapshotService.create_snapshot on the directory config_dir of filesystem
\* f: error names what was raised ("ValueError" for a missing or empty
\* directory, "connect" for the BatfishException of a refused session,
\* "engine" for a failure of set_network or init_snapshot)
create_snapshot(b, f, config_dir, snapshot_name, network_name, accepts, answer) ==
    LET config_files == glob(f, config_dir)
        s == session(b, "global")
        n == set_network(s.bf, "global", network_name)
        i == init_snapshot(n.bf, "global", network_name, snapshot_name, accepts)
        e == get_parse_errors(i.bf, snapshot_name, network_name, answer)
        d == _get_device_count(e.bf, snapshot_name, network_name, answer)
    IN  IF config_dir \notin f.dirs
           \/ ~\E q \in f.dirs \cup f.files : IsUnder(q, config_dir) /\ q # config_dir
        THEN [ok |-> FALSE, bf |-> b, error |-> "ValueError", snapshot |-> <<>>,
              config_file_count |-> 0]
        ELSE IF ~s.ok
        THEN [ok |-> FALSE, bf |-> s.bf, error |-> "connect", snapshot |-> <<>>,
              config_file_count |-> 0]
        ELSE IF ~n.ok
        THEN [ok |-> FALSE, bf |-> n.bf, error |-> "engine", snapshot |-> <<>>,
              config_file_count |-> 0]
        ELSE IF ~i.ok
        THEN [ok |-> FALSE, bf |-> i.bf, error |-> "engine", snapshot |-> <<>>,
              config_file_count |-> 0]
        ELSE [ok |-> TRUE, bf |-> d.bf, error |-> None,
              snapshot |-> <<Snapshot(d.value, e.value)>>,
              config_file_count |-> Cardinality(config_files)]

\* SnapshotService.delete_snapshot: a failure is raised as BatfishException
delete_snapshot(b, snapshot_name, network_name) ==
    LET s == session(b, "global")
    IN  IF ~s.ok THEN s
        ELSE LET n == set_network(s.bf, "global", network_name)
             IN  IF ~n.ok THEN n
                 ELSE bf_delete_snapshot(n.bf, "global", network_name, snapshot_name)

-----------------------------------------------------------------------------
(* Process start-up and the remaining engine-facing operations *)

\* import of topology_api / verification_api: the module builds a
\* BatfishService of its own and reads its session, which constructs a
\* Session; if that raises, the import raises and the process does not start
ImportApi(b, o, next_phase) ==
    LET s == session(b, o)
    IN  [s.bf EXCEPT !.phase = IF s.ok THEN next_phase ELSE "crashed"]

\* what GET /v2/version may give (the version, a body without that key, a
\* status other than 200, an exception) and what Session.get_info() may
\* give (either key, neither, an exception)
HttpOutcomes == {"version", "no_key", "status", "raises"}
InfoOutcomes == {"Batfish version", "version", "no_key", "raises"}

\* the batfishVersion values of the healthy record: the engine's, the
\* default "unknown", the literal "2025.07.07.2423" of the last resort
Versions == {"reported", "unknown", "2025.07.07.2423"}

\* the version retrieval of health_check on outcomes h and i
batfish_version(h, i) ==
    CASE h = "version" -> "reported"
      [] h \in {"no_key", "status"} -> "unknown"
      [] h = "raises" /\ i \in {"Batfish version", "version"} -> "reported"
      [] h = "raises" /\ i = "no_key" -> "unknown"
      [] h = "raises" /\ i = "raises" -> "2025.07.07.2423"

\* the record health_check returns
Healthy(version) ==
    [status |-> "healthy", apiVersion |-> "1.0.0", batfishVersion |-> version]

\* a health check that gives up when no version can be had (the fault C17
\* must detect)
health_check_Strict(b, http, info) ==
    LET s == session(b, "global")
    IN  IF ~s.ok \/ ~EngineCall(s.bf) \/ (http = "raises" /\ info = "raises")
        THEN [bf |-> s.bf, raised |-> "BatfishException", body |-> <<>>]
        ELSE [bf |-> s.bf, raised |-> None,
              body |-> <<Healthy(batfish_version(http, info))>>]

\* BatfishService.health_check on the global service object: the handle,
\* then the version over HTTP, then over get_info() if that raised; an
\* engine that answers no more makes either raise. Only the failure to
\* obtain the handle leaves the method, as BatfishException.
health_check(b, http, info) ==
    LET s == session(b, "global")
        h == IF EngineCall(s.bf) THEN http ELSE "raises"
        b1 == IF EngineCall(s.bf) THEN Spent(s.bf) ELSE s.bf
        i == IF EngineCall(b1) THEN info ELSE "raises"
        b2 == IF h = "raises" /\ EngineCall(b1) THEN Spent(b1) ELSE b1
    IN  IF ~s.ok
        THEN [bf |-> s.bf, raised |-> "BatfishException", body |-> <<>>]
        ELSE [bf |-> b2, raised |-> None,
              body |-> <<Healthy(batfish_version(h, i))>>]

\* TopologyService.get_devices / get_interfaces / get_layer3_edges, on the
\* handle the module took at import
get_devices(b, snapshot_name, network_name) ==
    SelectAndQuery(b, "topology_api", TRUE, "nodeProperties",
                   network_name, snapshot_name)
get_interfaces(b, snapshot_name, network_name) ==
    SelectAndQuery(b, "topology_api", TRUE, "interfaceProperties",
                   network_name, snapshot_name)
get_layer3_edges(b, snapshot_name, network_name) ==
    SelectAndQuery(b, "topology_api", TRUE, "layer3Edges",
                   network_name, snapshot_name)

\* TopologyService.get_topology: devices, then edges, then interfaces
get_topology(b, snapshot_name, network_name) ==
    LET d == get_devices(b, snapshot_name, network_name)
    IN  IF ~d.ok THEN d
        ELSE LET e == get_layer3_edges(d.bf, snapshot_name, network_name)
             IN  IF ~e.ok THEN e
                 ELSE get_interfaces(e.bf, snapshot_name, network_name)

\* the Active cell of a row of the interface answer: a boolean, no such
\* column, or a value the model's bool field does not take (None)
ActiveCells == {"true", "false", "absent", "invalid"}

\* NodeInterface(active=iface_row.get('Active', False), ...)
NodeInterface(cell) == [valid |-> cell # "invalid", active |-> cell = "true"]

\* a status that asks every interface to be active (the fault C10 must
\* detect)
NodeStatus_AllActive(interfaces) ==
    IF interfaces = <<>> THEN "unknown"
    ELSE IF \A k \in 1..Len(interfaces) : interfaces[k].active THEN "active"
    ELSE "inactive"

\* the status get_node_details derives from the interfaces it has built
NodeStatus(interfaces) ==
    IF interfaces = <<>> THEN "unknown"
    ELSE IF \E k \in 1..Len(interfaces) : interfaces[k].active THEN "active"
    ELSE "inactive"

\* a count copied from the row of the node query (the fault C11 must detect)
interface_count_Reported(reported, interfaces) == reported

\* interface_count=len(interfaces): the row of the node query is not read
interface_count(reported, interfaces) == Len(interfaces)

\* TopologyService.get_node_details: found says whether the node query
\* returned a row, reported is the interface count that row carries, cells
\* are the Active cells of the rows of the interface query
get_node_details(b, snapshot_name, network_name, found, reported, cells) ==
    LET n == SelectAndQuery(b, "topology_api", TRUE, "nodeProperties",
                            network_name, snapshot_name)
        i == query(n.bf, "topology_api", "interfaceProperties",
                   network_name, snapshot_name)
        interfaces == [k \in 1..Len(cells) |->
                          [active |-> NodeInterface(cells[k]).active]]
    IN  IF ~n.ok
        THEN [bf |-> n.bf, raised |-> "BatfishException", detail |-> <<>>]
        ELSE IF ~found
        THEN [bf |-> n.bf, raised |-> "KeyError", detail |-> <<>>]
        ELSE IF ~i.ok \/ \E k \in 1..Len(cells) : ~NodeInterface(cells[k]).valid
        THEN [bf |-> i.bf, raised |-> "BatfishException", detail |-> <<>>]
        ELSE [bf |-> i.bf, raised |-> None,
              detail |-> <<[status |-> NodeStatus(interfaces),
                            interface_count |->
                                interface_count(reported, interfaces),
                            interfaces |-> interfaces]>>]

\* the engine side of verify_reachability / verify_acl / verify_routing
VerifyQuestion(query_type) ==
    CASE query_type = "reachability" -> "reachability"
      [] query_type = "acl" -> "searchFilters"
      [] query_type = "routing" -> "routes"
VerifyQuery(b, query_type, snapshot_name, network_name) ==
    SelectAndQuery(b, "verification_api", TRUE, VerifyQuestion(query_type),
                   network_name, snapshot_name)

\* the snapshots of a network in the order the engine lists them
RECURSIVE ListOf(_)
ListOf(S) ==
    IF S = {} THEN <<>>
    ELSE LET x == CHOOSE y \in S : TRUE IN <<x>> \o ListOf(S \ {x})

\* the loop of SnapshotService.list_snapshots over the listed snapshots: a
\* snapshot whose details fail is left out
RECURSIVE DetailsOfAll(_, _)
DetailsOfAll(b, pairs) ==
    IF pairs = <<>> THEN b
    ELSE DetailsOfAll(get_snapshot_details(b, pairs[1][2], pairs[1][1], NoRows).bf,
                      Tail(pairs))

\* SnapshotService.list_snapshots(network_name): any failure is swallowed
list_snapshots(b, network_name) ==
    LET s == session(b, "global")
    IN  IF ~s.ok THEN s.bf
        ELSE LET n == set_network(s.bf, "global", network_name)
             IN  IF ~n.ok \/ ~EngineCall(n.bf) THEN n.bf
                 ELSE LET l == Spent(Dispatch(n.bf, "global", "list_snapshots",
                                              "list", network_name, NoSnapshot))
                      IN  DetailsOfAll(l, ListOf({p \in l.snapshots :
                                                     p[1] = network_name}))

-----------------------------------------------------------------------------
(* VerificationService: verify_reachability, verify_acl, verify_routing *)

\* an Optional field: absent (None), or holding a value
Absent == <<>>
Some(x) == <<x>>

\* the list a normalizer returns for an answer of the given number of rows
RowList(rows) == [i \in 1..rows |-> i]

\* what may go wrong in the try block besides the engine calls: building
\* the constraints of the question, answer.frame(), the normalizer
Faults == {None, "constraints", "frame", "normalize"}

\* the loop of a normalizer over the rows of a frame (for _, row in
\* df.iterrows(), after "if df.empty: return []" in the three parsers of
\* VerificationService): one object is built per row; bad says the model
\* rejects the cells of some row. No row, nothing built and nothing raised.
Normalizer(rows, bad) ==
    [raised |-> bad /\ rows > 0, list |-> RowList(rows)]

\* the list operations of TopologyService: selection and query, then the
\* loop over the rows; get_layer3_edges skips the open rows (an endpoint
\* missing). Every failure leaves as BatfishException.
ListOps == {"get_devices", "get_interfaces", "get_layer3_edges"}
ListQuestion(op) ==
    CASE op = "get_devices" -> "nodeProperties"
      [] op = "get_interfaces" -> "interfaceProperties"
      [] op = "get_layer3_edges" -> "layer3Edges"
TopologyList(b, op, snapshot_name, network_name, rows, open, bad) ==
    LET q == SelectAndQuery(b, "topology_api", TRUE, ListQuestion(op),
                            network_name, snapshot_name)
        kept == IF op = "get_layer3_edges" THEN rows - open ELSE rows
        n == Normalizer(kept, bad)
    IN  IF ~q.ok
        THEN [bf |-> q.bf, raised |-> "BatfishException", stage |-> "dispatch",
              list |-> Absent]
        ELSE IF n.raised
        THEN [bf |-> q.bf, raised |-> "BatfishException", stage |-> "normalize",
              list |-> Absent]
        ELSE [bf |-> q.bf, raised |-> None, stage |-> None,
              list |-> Some(n.list)]

\* the parameters echoed in the result: the snapshot and the arguments of
\* the question (args stands for them); the network is not among them
Parameters(snapshot_name, args) == [snapshot |-> snapshot_name, args |-> args]

\* the payload fields of a SUCCESS result
SuccessPayloads_All(query_type, rows) ==
    [flow_traces |-> Some(RowList(rows)), acl_results |-> Some(RowList(rows)),
     route_entries |-> Some(RowList(rows))]

SuccessPayloads(query_type, rows) ==
    [flow_traces |-> IF query_type = "reachability"
                     THEN Some(RowList(rows)) ELSE Absent,
     acl_results |-> IF query_type = "acl" THEN Some(RowList(rows)) ELSE Absent,
     route_entries |-> IF query_type = "routing"
                       THEN Some(RowList(rows)) ELSE Absent]

\* VerificationResult(...): the record, or invalid where the model's
\* validation (execution_time_ms >= 0) raises
VerificationResult(query_id, query_type, parameters, status, execution_time_ms, payloads, error_message) ==
    [valid |-> execution_time_ms >= 0,
     record |-> [query_id |-> query_id, query_type |-> query_type,
                 parameters |-> parameters, status |-> status,
                 execution_time_ms |-> execution_time_ms,
                 flow_traces |-> payloads.flow_traces,
                 acl_results |-> payloads.acl_results,
                 route_entries |-> payloads.route_entries,
                 error_message |-> error_message]]

NoPayloads ==
    [flow_traces |-> Absent, acl_results |-> Absent, route_entries |-> Absent]

\* one of the three verify methods, on readings t0 (query id), t1 (start),
\* t2 (end of the try block or entry of the except clause) and t3 (the
\* except clause entered from a failed construction of the SUCCESS result)
\* of time.time() in milliseconds
verify(b, query_type, snapshot_name, network_name, args, fault, rows, t0, t1, t2, t3) ==
    LET p == Select(b, "verification_api", TRUE, network_name, snapshot_name)
        q == IF ~p.ok \/ fault = "constraints" THEN Fail(p.bf)
             ELSE query(p.bf, "verification_api", VerifyQuestion(query_type),
                        network_name, snapshot_name)
        stage == IF ~p.ok THEN "selection"
                 ELSE IF fault = "constraints" THEN "constraints"
                 ELSE IF ~q.ok THEN "dispatch"
                 ELSE IF fault = "frame" THEN "frame"
                 ELSE IF Normalizer(rows, fault = "normalize").raised
                 THEN "normalize"
                 ELSE None
        parameters == Parameters(snapshot_name, args)
        success == VerificationResult(t0, query_type, parameters, "SUCCESS",
                                      t2 - t1, SuccessPayloads(query_type, rows),
                                      Absent)
        caught == IF stage # None THEN stage ELSE "validation"
        t_except == IF stage # None THEN t2 ELSE t3
        failed == VerificationResult(t0, query_type, parameters, "FAILED",
                                     t_except - t1, NoPayloads, Some(caught))
    IN  IF stage = None /\ success.valid
        THEN [bf |-> q.bf, raised |-> FALSE, result |-> Some(success.record),
              stage |-> stage, now |-> t2]
        ELSE [bf |-> q.bf, raised |-> ~failed.valid,
              result |-> IF failed.valid THEN Some(failed.record) ELSE Absent,
              stage |-> caught, now |-> t_except]

\* no verification call made yet; the wall clock reads 1 ms
VrIdle == [pc |-> "idle", now |-> 1, result |-> Absent, stage |-> None, rows |-> 0]

\* no list operation of the topology service called yet
LsIdle == [pc |-> "idle", op |-> None, rows |-> 0, raised |-> None, stage |-> None, list |-> Absent]

\* no node-detail call made yet
NdIdle == [pc |-> "idle", raised |-> None, detail |-> <<>>, cells |-> <<>>, reported |-> 0, found |-> FALSE, answered |-> FALSE]

-----------------------------------------------------------------------------
(* POST /snapshots (snapshot_api.create_snapshot) *)

\* longest snapshot name _validate_snapshot_name lets through
NAME_MAX_LEN == 100

\* _validate_snapshot_name: TRUE where it returns, FALSE where it raises the
\* 400 INVALID_SNAPSHOT_NAME
_validate_snapshot_name(name) ==
    IF name = <<>> \/ Len(name) < 1 \/ Len(name) > NAME_MAX_LEN
    THEN FALSE
    ELSE ReMatchClassPlus(name, NameClass)

\* no request in progress
ApiIdle ==
    [pc |-> "idle", op |-> None, snapshotName |-> <<>>, networkName |-> None,
     status |-> 0, code |-> None, body |-> <<>>, hostname |-> None]

\* the response of the handler
Respond(a, status, code) ==
    [a EXCEPT !.pc = "done", !.status = status, !.code = code]

\* str.lower() on the letters that matter to the handler's test
Lower(c) ==
    CASE c = "B" -> "b" [] c = "A" -> "a" [] c = "T" -> "t" [] c = "F" -> "f"
      [] c = "I" -> "i" [] c = "S" -> "s" [] c = "H" -> "h" [] c = "C" -> "c"
      [] c = "O" -> "o" [] c = "N" -> "n" [] c = "E" -> "e" [] OTHER -> c

\* sub in text.lower()
ContainsLower(text, sub) ==
    \E i \in 1..(Len(text) - Len(sub) + 1) :
        \A j \in 1..Len(sub) : Lower(text[i + j - 1]) = sub[j]

\* the test of the handler's except clause on str(e).lower()
MentionsEngine(text) ==
    \/ ContainsLower(text, <<"c", "o", "n", "n", "e", "c", "t">>)
    \/ ContainsLower(text, <<"b", "a", "t", "f", "i", "s", "h">>)

\* the part of the message of a failed save_uploaded_files that comes from
\* the request; the fixed wording holds neither word
ErrorText(u) ==
    IF u.error \in {"filename", "file_size"} /\ u.cur.filename # <<>>
    THEN basename(u.cur.filename)
    ELSE <<>>

\* errors whose message carries text of the environment (the OSError of a
\* failed read, open or write, with the absolute path of the staging root)
EnvTextErrors == {"read", "open", "write"}

\* the status of the handler's except clause for a failed
\* save_uploaded_files; env_mentions is what the environment's text decides
SaveErrorStatus(u, env_mentions) ==
    IF MentionsEngine(ErrorText(u))
       \/ (u.error \in EnvTextErrors /\ env_mentions)
       \/ (u.error \in {"open", "write"} /\ MentionsEngine(u.snapshot_name))
    THEN 503 ELSE 500

\* create_snapshot from the request to the first awaited read: validation,
\* the duplicate check, and the opening of save_uploaded_files
PostBegin(snapshotName, networkName, has_files, left) ==
    /\ api.pc = "idle"
    /\ up.pc = "idle"
    /\ LET a == [api EXCEPT !.op = "POST", !.snapshotName = snapshotName,
                            !.networkName = networkName]
       IN  IF ~_validate_snapshot_name(snapshotName)
           THEN /\ api' = Respond(a, 400, "INVALID_SNAPSHOT_NAME")
                /\ UNCHANGED <<fs, up, bf>>
           ELSE IF ~has_files
           THEN /\ api' = Respond(a, 400, "NO_CONFIG_FILES")
                /\ UNCHANGED <<fs, up, bf>>
           ELSE LET d == get_snapshot_details(
                             Begin(get_batfish_service(bf), left),
                             snapshotName, networkName, NoRows)
                IN  /\ bf' = End(d.bf)
                    /\ IF d.ok
                       THEN /\ api' = Respond(a, 409, "SNAPSHOT_ALREADY_EXISTS")
                            /\ UNCHANGED <<fs, up>>
                       ELSE /\ SaveBegin(snapshotName, TRUE)
                            /\ api' = IF up'.pc = "returned"
                                      THEN Respond(a, 500, "SNAPSHOT_CREATION_ERROR")
                                      ELSE [a EXCEPT !.pc = "staging"]

\* create_snapshot through one turn of the loop of save_uploaded_files; a
\* failure there is answered by the except clause
PostFile(file, io, env_mentions) ==
    /\ api.pc = "staging"
    /\ SaveFile(file, io)
    /\ api' = IF up'.pc = "returned"
              THEN LET st == SaveErrorStatus(up', env_mentions)
                   IN  Respond(api, st, IF st = 503 THEN "BATFISH_CONNECTION_ERROR"
                                        ELSE "SNAPSHOT_CREATION_ERROR")
              ELSE api
    /\ UNCHANGED bf

\* create_snapshot from the return of save_uploaded_files to the response:
\* the engine initialisation; refused_mentions is what the text of an engine
\* failure decides in the except clause
PostFinish(left, accepts, refused_mentions) ==
    /\ api.pc = "staging"
    /\ SaveReturn
    /\ LET c == create_snapshot(Begin(bf, left), fs, up.snapshot_dir,
                                api.snapshotName, api.networkName, accepts,
                                NoRows)
       IN  /\ bf' = End(c.bf)
           /\ api' = IF c.ok
                     THEN [Respond(api, 201, None) EXCEPT
                              !.body = <<[config_file_count |-> c.config_file_count]>>]
                     ELSE IF c.error = "connect" \/ refused_mentions
                     THEN Respond(api, 503, "BATFISH_CONNECTION_ERROR")
                     ELSE Respond(api, 500, "SNAPSHOT_CREATION_ERROR")

-----------------------------------------------------------------------------
(* GET /health *)

\* an except clause that knows no BatfishException (the fault C16 must
\* detect)
HealthErrorStatus_Generic(raised) == 500

\* the except clauses of health_api.health_check: BatfishException, then
\* every other exception
HealthErrorStatus(raised) == IF raised = "BatfishException" THEN 503 ELSE 500

\* health_api.health_check
HealthApi(left, http, info) ==
    /\ api.pc = "idle"
    /\ LET a == [api EXCEPT !.op = "HEALTH"]
           h == health_check(Begin(get_batfish_service(bf), left), http, info)
           st == HealthErrorStatus(h.raised)
       IN  /\ bf' = End(h.bf)
           /\ api' = IF h.raised = None
                     THEN [Respond(a, 200, None) EXCEPT !.body = h.body]
                     ELSE Respond(a, st, IF st = 503
                                         THEN "BATFISH_CONNECTION_ERROR"
                                         ELSE "HEALTH_CHECK_ERROR")
    /\ UNCHANGED <<fs, up>>

-----------------------------------------------------------------------------
(* GET and DELETE /snapshots/{snapshotName} *)

\* snapshot_api.get_snapshot: get_snapshot_details raises ValueError and
\* nothing else, so the handler's second except clause (503 / 500) is never
\* entered
GetSnapshot(snapshotName, network, left) ==
    /\ api.pc = "idle"
    /\ LET a == [api EXCEPT !.op = "GET", !.snapshotName = snapshotName,
                            !.networkName = network]
           d == get_snapshot_details(Begin(get_batfish_service(bf), left),
                                     snapshotName, network, NoRows)
       IN  /\ bf' = End(d.bf)
           /\ api' = IF d.ok THEN Respond(a, 200, None)
                     ELSE Respond(a, 404, "SNAPSHOT_NOT_FOUND")
    /\ UNCHANGED <<fs, up>>

\* snapshot_api.delete_snapshot: the existence check, the engine's delete,
\* the cleanup of the staging directory; mentions is what the text of a
\* failed delete decides in the except clause. up.rm records what the
\* cleanup met.
DeleteSnapshot(snapshotName, network, left, mentions) ==
    /\ api.pc = "idle"
    /\ up.pc = "idle"
    /\ LET a == [api EXCEPT !.op = "DELETE", !.snapshotName = snapshotName,
                            !.networkName = network]
           d == get_snapshot_details(Begin(get_batfish_service(bf), left),
                                     snapshotName, network, NoRows)
           x == delete_snapshot(d.bf, snapshotName, network)
           snapshot_dir == Resolve(TempDir, snapshotName)
       IN  IF ~d.ok
           THEN /\ api' = Respond(a, 404, "SNAPSHOT_NOT_FOUND")
                /\ bf' = End(d.bf)
                /\ UNCHANGED <<fs, up>>
           ELSE IF ~x.ok
           THEN /\ api' = IF mentions
                          THEN Respond(a, 503, "BATFISH_CONNECTION_ERROR")
                          ELSE Respond(a, 500, "SNAPSHOT_DELETE_ERROR")
                /\ bf' = End(x.bf)
                /\ UNCHANGED <<fs, up>>
           ELSE \E rm \in RmOutcomes(fs, snapshot_dir) :
                   /\ fs' = cleanup_snapshot_dir(fs, snapshotName, rm)
                   /\ up' = [up EXCEPT !.rm = IF ~exists(fs, snapshot_dir)
                                               THEN "absent"
                                               ELSE IF rm.ok THEN "removed"
                                               ELSE "failed"]
                   /\ api' = Respond(a, 204, None)
                   /\ bf' = End(x.bf)

-----------------------------------------------------------------------------
(* Inputs of the upload specifications *)

\* snapshot names handed to save_uploaded_files
UploadSnapshotNames ==
    { <<"s">>, <<>>, <<" ">>,
      <<".">>, <<".", ".", "/", "x">>,
      <<".", ".", "/", "u", "a">> }

\* file names of an upload request
UploadFileNames ==
    { <<"a">>, <<>>, <<".", ".", "/", "a">>, <<"a", "!">>,
      <<"a", NL>>, <<".", "a">>, <<"a", "/">> }

UploadFiles ==
    {[filename |-> n, size |-> 1] : n \in UploadFileNames}
    \cup {[filename |-> n, size |-> MAX_FILE_SIZE_BYTES + 1] : n \in {<<"a">>, <<>>}}

IoOutcomes == {"ok", "read_fails", "open_fails", "write_fails"}

\* snapshot "s" staged by an earlier successful upload of file "b"
FsStaged ==
    create(mkdir(FsInit, <<<<"u">>, <<"s">>, ConfigsName>>),
           <<<<"u">>, <<"s">>, ConfigsName, <<"b">>>>)

UploadInit ==
    /\ fs \in {FsInit, FsStaged}
    /\ up = UpIdle
    /\ bf = BfInit
    /\ api = ApiIdle
    /\ vr = VrIdle
    /\ nd = NdIdle

UploadNext ==
    \/ \E name \in UploadSnapshotNames, has_files \in BOOLEAN :
          SaveBegin(name, has_files) /\ UNCHANGED <<bf, api, vr, nd>>
    \/ \E file \in UploadFiles, io \in IoOutcomes :
          up.n < MaxFiles /\ SaveFile(file, io) /\ UNCHANGED <<bf, api, vr, nd>>
    \/ SaveReturn /\ UNCHANGED <<bf, api, vr, nd>>

\* one call of save_uploaded_files on a request of at most MaxFiles files
SpecUpload == UploadInit /\ [][UploadNext]_vars

\* files of a bulk request: one name, sizes around the per-file ceiling
BulkFiles ==
    {[filename |-> <<"a">>, size |-> z] :
        z \in {1, MAX_FILE_SIZE_BYTES, MAX_FILE_SIZE_BYTES + 1}}
    \cup {[filename |-> <<>>, size |-> MAX_FILE_SIZE_BYTES + 1]}

BulkNext ==
    \/ SaveBegin(<<"s">>, TRUE) /\ UNCHANGED <<bf, api, vr, nd>>
    \/ \E file \in BulkFiles :
          up.n < MaxBulk /\ SaveFile(file, "ok") /\ UNCHANGED <<bf, api, vr, nd>>
    \/ SaveReturn /\ UNCHANGED <<bf, api, vr, nd>>

\* one call of save_uploaded_files on a request of at most MaxBulk files
SpecBulk == UploadInit /\ [][BulkNext]_vars

-----------------------------------------------------------------------------
(* One POST /snapshots request, over snapshot names of every shape *)

\* characters of the enumerated names: inside the class, outside it, and
\* the line feed
PostNameChars == {"a", "Z", "0", "-", "_", ".", "!", " ", "/", NL}

\* names at the length limit: one short of it, extended by each short text
PostLongNames ==
    {Rep("a", NAME_MAX_LEN - 1) \o t : t \in TextsUpTo({"a", "!", NL}, MaxLen)}

PostNames == TextsUpTo(PostNameChars, MaxLen) \cup PostLongNames

\* an engine that holds snapshot "a" of network n1 already
BfWithA == [BfInit EXCEPT !.snapshots = {<<"n1", <<"a">>>>}]

NamesInit ==
    /\ fs = FsInit
    /\ up = UpIdle
    /\ bf \in {BfInit, BfWithA}
    /\ api = ApiIdle
    /\ vr = VrIdle
    /\ nd = NdIdle

NamesNext ==
    /\ UNCHANGED <<vr, nd>>
    /\ \/ \E name \in PostNames, has_files \in BOOLEAN, left \in Lefts :
             PostBegin(name, "n1", has_files, left)
       \/ \E io \in {"ok", "write_fails"}, env_mentions \in BOOLEAN :
             /\ up.n < MaxFiles
             /\ PostFile([filename |-> <<"a">>, size |-> 1], io, env_mentions)
       \/ \E left \in Lefts, accepts \in BOOLEAN, refused_mentions \in BOOLEAN :
             PostFinish(left, accepts, refused_mentions)

\* one POST /snapshots request from validation to response
SpecNames == NamesInit /\ [][NamesNext]_vars

-----------------------------------------------------------------------------
(* The process from start-up on: the operations that reach the engine *)

\* snapshot names of the requests
ProcNames == {<<"s">>, <<"t">>}

\* the staged directory handed to SnapshotService.create_snapshot
ProcConfigDir == <<<<"u">>, <<"s">>>>

\* the process serves, and no operation is in progress
Serving == bf.phase = "serving" /\ bf.log = <<>>

\* the operation returns to its caller
Returned ==
    /\ bf.log # <<>>
    /\ bf' = [bf EXCEPT !.log = <<>>]

ImportTopologyApi(left) ==
    /\ bf.phase = "import_topology"
    /\ bf' = End(ImportApi(Begin(bf, left), "topology_api", "import_verification"))

ImportVerificationApi(left) ==
    /\ bf.phase = "import_verification"
    /\ bf' = End(ImportApi(Begin(bf, left), "verification_api", "serving"))

\* GET /health
Health(left, http, info) ==
    /\ Serving
    /\ bf' = End(health_check(Begin(get_batfish_service(bf), left), http,
                              info).bf)

SnapshotCreate(name, net, left, accepts) ==
    /\ Serving
    /\ bf' = End(create_snapshot(Begin(get_batfish_service(bf), left), fs,
                                 ProcConfigDir, name, net, accepts, NoRows).bf)

SnapshotDetails(name, net, left) ==
    /\ Serving
    /\ bf' = End(get_snapshot_details(Begin(get_batfish_service(bf), left),
                                      name, net, NoRows).bf)

SnapshotDelete(name, net, left) ==
    /\ Serving
    /\ bf' = End(delete_snapshot(Begin(get_batfish_service(bf), left),
                                 name, net).bf)

SnapshotList(net, left) ==
    /\ Serving
    /\ bf' = End(list_snapshots(Begin(get_batfish_service(bf), left), net))

TopologyOps == {"get_devices", "get_interfaces", "get_layer3_edges",
                "get_topology", "get_node_details"}

Topology(op, name, net, left, found) ==
    /\ Serving
    /\ LET b == Begin(bf, left)
       IN  bf' = End(CASE op = "get_devices" -> get_devices(b, name, net).bf
                       [] op = "get_interfaces" -> get_interfaces(b, name, net).bf
                       [] op = "get_layer3_edges" -> get_layer3_edges(b, name, net).bf
                       [] op = "get_topology" -> get_topology(b, name, net).bf
                       [] op = "get_node_details" ->
                              get_node_details(b, name, net, found, 0, <<>>).bf)

QueryTypes == {"reachability", "acl", "routing"}

Verification(query_type, name, net, left) ==
    /\ Serving
    /\ bf' = End(VerifyQuery(Begin(bf, left), query_type, name, net).bf)

ProcInit ==
    /\ fs = FsStaged
    /\ up = UpIdle
    /\ api = ApiIdle
    /\ vr = VrIdle
    /\ nd = NdIdle
    /\ bf = BfStart

ProcNext ==
    /\ UNCHANGED <<fs, up, api, vr, nd>>
    /\ \E left \in Lefts, name \in ProcNames, net \in Networks :
          \/ Returned
          \/ ImportTopologyApi(left)
          \/ ImportVerificationApi(left)
          \/ \E http \in HttpOutcomes, info \in InfoOutcomes :
                Health(left, http, info)
          \/ \E accepts \in BOOLEAN : SnapshotCreate(name, net, left, accepts)
          \/ SnapshotDetails(name, net, left)
          \/ SnapshotDelete(name, net, left)
          \/ SnapshotList(net, left)
          \/ \E op \in TopologyOps, found \in BOOLEAN :
                Topology(op, name, net, left, found)
          \/ \E query_type \in QueryTypes : Verification(query_type, name, net, left)

\* the process from the import of the API modules on
SpecProcess == ProcInit /\ [][ProcNext]_vars

-----------------------------------------------------------------------------
(* Verification calls under a wall clock that may be set back *)

\* what the wall clock may do between two readings, in milliseconds
ClockSteps == {-1, 0, 1}

\* an engine that holds snapshot "s" of network n1
BfWithS == [BfInit EXCEPT !.snapshots = {<<"n1", <<"s">>>>}]

Verify(query_type, snapshot_name, left, fault, rows, d1, d2, d3) ==
    /\ vr.pc = "idle"
    /\ LET t0 == vr.now
           t1 == t0 + d1
           t2 == t1 + d2
           t3 == t2 + d3
           v == verify(Begin(bf, left), query_type, snapshot_name, "n1", "args",
                       fault, rows, t0, t1, t2, t3)
       IN  /\ {t1, t2, t3} \subseteq 0..MaxClock
           /\ bf' = [End(v.bf) EXCEPT !.log = <<>>]
           /\ vr' = [pc |-> IF v.raised THEN "raised" ELSE "returned",
                     now |-> v.now, result |-> v.result, stage |-> v.stage,
                     rows |-> rows]

\* the caller has taken the result; the clock runs on
VerifyDone ==
    /\ vr.pc # "idle"
    /\ vr' = [VrIdle EXCEPT !.now = vr.now]
    /\ UNCHANGED bf

VerifyInit ==
    /\ fs = FsInit
    /\ up = UpIdle
    /\ api = ApiIdle
    /\ nd = NdIdle
    /\ vr = VrIdle
    /\ bf = BfWithS

VerifyNext ==
    /\ UNCHANGED <<fs, up, api, nd>>
    /\ \/ \E query_type \in QueryTypes, snapshot_name \in ProcNames,
             left \in Lefts, fault \in Faults, rows \in 0..MaxRows,
             d1 \in ClockSteps, d2 \in ClockSteps, d3 \in ClockSteps :
             Verify(query_type, snapshot_name, left, fault, rows, d1, d2, d3)
       \/ VerifyDone

\* verification calls, one after the other
SpecVerify == VerifyInit /\ [][VerifyNext]_vars

-----------------------------------------------------------------------------
(* The query ids of successive verification calls *)

\* verification calls of a run
MaxCalls == 3

\* no query id issued yet
IdsIdle == [ids |-> <<>>]

\* one verification call; the query id of its result, q_<milliseconds of
\* time.time()>, joins the ids issued by the process
VerifyLogged(query_type, left, d1, d2) ==
    /\ Len(nd.ids) < MaxCalls
    /\ Verify(query_type, <<"s">>, left, None, 0, d1, d2, 0)
    /\ nd' = [ids |-> IF vr'.result # Absent
                      THEN Append(nd.ids, vr'.result[1].query_id)
                      ELSE nd.ids]

IdsInit ==
    /\ fs = FsInit
    /\ up = UpIdle
    /\ api = ApiIdle
    /\ nd = IdsIdle
    /\ vr = VrIdle
    /\ bf = BfWithS

IdsNext ==
    /\ UNCHANGED <<fs, up, api>>
    /\ \/ \E query_type \in QueryTypes, left \in {0, Enough},
             d1 \in ClockSteps, d2 \in ClockSteps :
             VerifyLogged(query_type, left, d1, d2)
       \/ VerifyDone /\ UNCHANGED nd

\* verification calls of one process, one after the other
SpecIds == IdsInit /\ [][IdsNext]_vars

-----------------------------------------------------------------------------
(* The snapshot endpoints, one request after the other *)

\* snapshot names and files of the requests: a valid file, a hidden one, one
\* with a character outside the allowed class, one over the per-file ceiling
RestNames == {<<"s">>, <<"t">>}
RestFile == [filename |-> <<"a">>, size |-> 1]
RestFiles ==
    {RestFile, [filename |-> <<".", "a">>, size |-> 1],
     [filename |-> <<"a", "!">>, size |-> 1],
     [filename |-> <<"a">>, size |-> MAX_FILE_SIZE_BYTES + 1]}

\* the response has been sent; the next request may come
RestDone ==
    /\ api.pc = "done"
    /\ api' = ApiIdle
    /\ up' = UpIdle
    /\ bf' = [bf EXCEPT !.log = <<>>]
    /\ UNCHANGED fs

RestInit ==
    /\ fs = FsInit
    /\ up = UpIdle
    /\ bf = BfInit
    /\ api = ApiIdle
    /\ vr = VrIdle
    /\ nd = NdIdle

RestNext ==
    /\ UNCHANGED <<vr, nd>>
    /\ \/ \E name \in RestNames, left \in Lefts :
             PostBegin(name, "n1", TRUE, left)
       \/ \E file \in RestFiles, io \in {"ok", "write_fails"} :
             /\ up.n < 1
             /\ PostFile(file, io, FALSE)
       \/ \E left \in Lefts, accepts \in BOOLEAN, refused_mentions \in BOOLEAN :
             PostFinish(left, accepts, refused_mentions)
       \/ \E name \in RestNames, left \in Lefts :
             GetSnapshot(name, "n1", left)
       \/ \E name \in RestNames, left \in Lefts, mentions \in BOOLEAN :
             DeleteSnapshot(name, "n1", left, mentions)
       \/ \E left \in Lefts, http \in HttpOutcomes, info \in InfoOutcomes :
             HealthApi(left, http, info)
       \/ RestDone

\* requests to the snapshot endpoints, served one at a time
SpecRest == RestInit /\ [][RestNext]_vars

-----------------------------------------------------------------------------
(* TopologyService: the rows of the edge answer and the aggregate *)

\* hostnames as texts; R3 owns interfaces but has no row in the node table
R1 == <<"r", "1">>
R2 == <<"r", "2">>
R3 == <<"r", "3">>

\* what a cell of the Interface columns holds: None, the engine's Interface
\* object, or a value without the attributes hostname and interface
CellKinds == {"None", "Interface", "bare"}

Cell(kind, hostname, interface) ==
    [kind |-> kind,
     hostname |-> IF kind = "Interface" THEN hostname ELSE <<>>,
     interface |-> IF kind = "Interface" THEN interface ELSE <<>>]

\* the frame of the layer3Edges answer whose k-th row has cells of the
\* kinds kinds[k], naming interface e..e (k letters) of r1 and of r2
EdgeFrame(kinds) ==
    [k \in 1..Len(kinds) |->
        [Interface |-> Cell(kinds[k][1], R1, Rep("e", k)),
         Remote_Interface |-> Cell(kinds[k][2], R2, Rep("e", k))]]

EdgeFrames == {EdgeFrame(kinds) : kinds \in TextsUpTo(CellKinds \X CellKinds, MaxRows)}

\* a loop that skips no row (the fault C24 must detect)
SkipRow_Never(row) == FALSE

\* if not iface1 or not iface2: continue
SkipRow(row) == row.Interface.kind = "None" \/ row.Remote_Interface.kind = "None"

\* x.attr if hasattr(x, attr) else ''
AttrOrEmpty(cell, value) == IF cell.kind = "Interface" THEN value ELSE <<>>

\* Edge(...): the four endpoint fields are declared min_length=1
Edge(source_hostname, source_interface, target_hostname, target_interface) ==
    [valid |-> /\ Len(source_hostname) >= 1
               /\ Len(source_interface) >= 1
               /\ Len(target_hostname) >= 1
               /\ Len(target_interface) >= 1,
     record |-> [source_hostname |-> source_hostname,
                 source_interface |-> source_interface,
                 target_hostname |-> target_hostname,
                 target_interface |-> target_interface,
                 link_type |-> "layer3"]]

\* the loop of get_layer3_edges over the rows of the frame
RECURSIVE EdgeLoop(_)
EdgeLoop(df) ==
    IF df = <<>> THEN [raised |-> FALSE, edges |-> <<>>]
    ELSE LET row == Head(df)
             rest == EdgeLoop(Tail(df))
             iface1 == row.Interface
             iface2 == row.Remote_Interface
             edge == Edge(AttrOrEmpty(iface1, iface1.hostname),
                          AttrOrEmpty(iface1, iface1.interface),
                          AttrOrEmpty(iface2, iface2.hostname),
                          AttrOrEmpty(iface2, iface2.interface))
         IN  IF SkipRow(row) THEN rest
             ELSE IF ~edge.valid THEN [raised |-> TRUE, edges |-> <<>>]
             ELSE [rest EXCEPT !.edges = <<edge.record>> \o @]

\* TopologyService.get_layer3_edges on an answer of frame df
Layer3Edges(b, snapshot_name, network_name, df) ==
    LET q == get_layer3_edges(b, snapshot_name, network_name)
        l == EdgeLoop(df)
    IN  IF ~q.ok \/ l.raised
        THEN [bf |-> q.bf, raised |-> "BatfishException",
              stage |-> IF ~q.ok THEN "dispatch" ELSE "rows", edges |-> <<>>]
        ELSE [bf |-> q.bf, raised |-> None, stage |-> None, edges |-> l.edges]

\* the loop of get_devices over the Node cells of the node table
Devices(nodes) ==
    [k \in 1..Len(nodes) |-> [hostname |-> nodes[k], interfaces_count |-> 0]]

\* the loop of get_interfaces over the hostnames of the Interface cells
Interfaces(ifaces) == [k \in 1..Len(ifaces) |-> [hostname |-> ifaces[k]]]

\* a count that gives every hostname the length of the list (the fault C25
\* must detect)
interface_counts_Total(interfaces) ==
    [h \in {interfaces[k].hostname : k \in 1..Len(interfaces)} |-> Len(interfaces)]

\* interface_counts[iface.hostname] = interface_counts.get(iface.hostname, 0) + 1
\* over the list, from the empty dict
RECURSIVE interface_counts(_)
interface_counts(interfaces) ==
    IF interfaces = <<>> THEN [h \in {} |-> 0]
    ELSE LET n == Len(interfaces)
             c == interface_counts(SubSeq(interfaces, 1, n - 1))
             h == interfaces[n].hostname
         IN  [x \in DOMAIN c \cup {h} |->
                 IF x = h THEN (IF h \in DOMAIN c THEN c[h] ELSE 0) + 1
                 ELSE c[x]]

\* dict.get(key, default)
DictGet(d, key, default) == IF key \in DOMAIN d THEN d[key] ELSE default

\* TopologyService.get_topology on the three answers: the devices, the
\* edges, the interface list, and the counts written into the devices
TopologyAggregate(b, snapshot_name, network_name, nodes, df, ifaces) ==
    LET d == get_devices(b, snapshot_name, network_name)
        e == IF d.ok THEN Layer3Edges(d.bf, snapshot_name, network_name, df)
             ELSE [bf |-> d.bf, raised |-> "BatfishException",
                   stage |-> "dispatch", edges |-> <<>>]
        i == IF e.raised = None
             THEN get_interfaces(e.bf, snapshot_name, network_name)
             ELSE Fail(e.bf)
        counts == interface_counts(Interfaces(ifaces))
        devices == Devices(nodes)
    IN  IF ~i.ok
        THEN [bf |-> i.bf, raised |-> "BatfishException", nodes |-> <<>>,
              edges |-> <<>>]
        ELSE [bf |-> i.bf, raised |-> None,
              nodes |-> [k \in 1..Len(devices) |->
                           [devices[k] EXCEPT !.interfaces_count =
                               DictGet(counts, devices[k].hostname, 0)]],
              edges |-> e.edges]

\* node tables: a row per node, hostnames distinct
NodeFrames == {<<>>, <<R1>>, <<R2>>, <<R1, R2>>, <<R2, R1>>}

\* hostnames of the rows of an interface answer
InterfaceFrames == TextsUpTo({R1, R2, R3}, MaxRows)

\* no call of the topology service made yet
TpIdle ==
    [pc |-> "idle", op |-> None, df |-> <<>>, answered |-> FALSE,
     ifaces |-> <<>>, raised |-> None, nodes |-> <<>>, edges |-> <<>>]

\* one call of get_layer3_edges
EdgesCall(left, df) ==
    /\ nd.pc = "idle"
    /\ LET l == Layer3Edges(Begin(bf, left), <<"s">>, "n1", df)
       IN  /\ bf' = [End(l.bf) EXCEPT !.log = <<>>]
           /\ nd' = [TpIdle EXCEPT !.pc = "returned",
                                   !.op = "get_layer3_edges", !.df = df,
                                   !.answered = l.stage # "dispatch",
                                   !.raised = l.raised, !.edges = l.edges]

\* one call of get_topology
TopologyCall(left, nodes, df, ifaces) ==
    /\ nd.pc = "idle"
    /\ LET t == TopologyAggregate(Begin(bf, left), <<"s">>, "n1", nodes, df,
                                  ifaces)
       IN  /\ bf' = [End(t.bf) EXCEPT !.log = <<>>]
           /\ nd' = [TpIdle EXCEPT !.pc = "returned", !.op = "get_topology",
                                   !.df = df, !.ifaces = ifaces,
                                   !.answered = t.raised = None,
                                   !.raised = t.raised, !.nodes = t.nodes,
                                   !.edges = t.edges]

\* the caller has taken the result
TopologyDone ==
    /\ nd.pc = "returned"
    /\ nd' = TpIdle
    /\ UNCHANGED bf

TopologyInit ==
    /\ fs = FsInit
    /\ up = UpIdle
    /\ api = ApiIdle
    /\ vr = VrIdle
    /\ nd = TpIdle
    /\ bf = BfWithS

TopologyNext ==
    /\ UNCHANGED <<fs, up, api, vr>>
    /\ \/ /\ nd.pc = "idle"
          /\ \/ \E left \in Lefts, df \in EdgeFrames : EdgesCall(left, df)
             \/ \E left \in {MaxContacts, Enough}, nodes \in NodeFrames,
                   df \in {<<>>, EdgeFrame(<<<<"Interface", "Interface">>>>)},
                   ifaces \in InterfaceFrames :
                   TopologyCall(left, nodes, df, ifaces)
       \/ TopologyDone

\* calls of get_layer3_edges and get_topology, one after the other
SpecTopology == TopologyInit /\ [][TopologyNext]_vars

-----------------------------------------------------------------------------
(* The verification endpoints (verification_api), one request after the other *)

Digits == {"0", "1", "2", "3", "4", "5", "6", "7", "8", "9"}

DigitValue(c) ==
    CASE c = "0" -> 0 [] c = "1" -> 1 [] c = "2" -> 2 [] c = "3" -> 3
      [] c = "4" -> 4 [] c = "5" -> 5 [] c = "6" -> 6 [] c = "7" -> 7
      [] c = "8" -> 8 [] c = "9" -> 9

\* the text a pattern ending in $ has to cover: $ also matches before a
\* line feed that ends the text
BeforeDollar(s) ==
    IF s # <<>> /\ s[Len(s)] = NL THEN SubSeq(s, 1, Len(s) - 1) ELSE s

\* index of the first c in s, 0 if there is none
RECURSIVE FirstOf(_, _)
FirstOf(s, c) ==
    IF s = <<>> THEN 0
    ELSE IF Head(s) = c THEN 1
    ELSE LET k == FirstOf(Tail(s), c) IN IF k = 0 THEN 0 ELSE k + 1

\* str.split(c)
RECURSIVE Split(_, _)
Split(s, c) ==
    LET k == FirstOf(s, c)
    IN  IF k = 0 THEN <<s>>
        ELSE <<SubSeq(s, 1, k - 1)>> \o Split(SubSeq(s, k + 1, Len(s)), c)

\* \d{lo,hi}
DigitRun(t, lo, hi) ==
    /\ Len(t) \in lo..hi
    /\ \A i \in 1..Len(t) : t[i] \in Digits

\* (\d{1,3}\.){3}\d{1,3} over the whole of t
DottedQuad(t) ==
    LET parts == Split(t, ".")
    IN  /\ Len(parts) = 4
        /\ \A i \in 1..4 : DigitRun(parts[i], 1, 3)

\* int(text): surrounding whitespace is dropped, the digits are read
RECURSIVE IntOf(_)
IntOf(t) ==
    IF t = <<>> THEN 0
    ELSE IF t[Len(t)] \in Whitespace THEN IntOf(SubSeq(t, 1, Len(t) - 1))
    ELSE 10 * IntOf(SubSeq(t, 1, Len(t) - 1)) + DigitValue(t[Len(t)])

\* ReachabilityRequest / ACLRequest.validate_ip_address: TRUE where the
\* validator returns v
validate_ip_address(v) ==
    /\ DottedQuad(BeforeDollar(v))
    /\ \A i \in 1..4 : IntOf(Split(v, ".")[i]) \in 0..255

valid_protocols == {"TCP", "UDP", "ICMP", "tcp", "udp", "icmp"}

\* ACLRequest.validate_protocol
validate_protocol(v) == v = None \/ v \in valid_protocols

\* RoutingRequest.validate_network_prefix on an optional text
validate_network_prefix(v) ==
    v = Absent \/
        LET parts == Split(BeforeDollar(v[1]), "/")
        IN  /\ Len(parts) = 2
            /\ DottedQuad(parts[1])
            /\ DigitRun(parts[2], 1, 2)

\* the request models: pydantic builds the request, or the framework
\* answers 422 without calling the handler
RequestValid(query_type, r) ==
    /\ Len(r.snapshot) >= 1
    /\ query_type \in {"reachability", "acl"} =>
          validate_ip_address(r.src_ip) /\ validate_ip_address(r.dst_ip)
    /\ query_type = "acl" =>
          Len(r.filter_name) >= 1 /\ validate_protocol(r.protocol)
    /\ query_type = "routing" => validate_network_prefix(r.network_filter)

GoodIp == <<"1", ".", "1", ".", "1", ".", "1">>

\* addresses of a request: well formed, an octet over 255, three octets,
\* letters, and a well formed address followed by a line feed
Ips ==
    {GoodIp,
     <<"2", "5", "6", ".", "1", ".", "1", ".", "1">>,
     <<"1", ".", "1", ".", "1">>,
     <<"a", ".", "1", ".", "1", ".", "1">>,
     GoodIp \o <<NL>>}

Protocols == {None, "TCP", "icmp", "Tcp"}

Prefixes ==
    {Absent,
     Some(<<"1", ".", "0", ".", "0", ".", "0", "/", "8">>),
     Some(<<"1", ".", "0", ".", "0", ".", "0">>),
     Some(<<"1", ".", "0", ".", "0", "/", "8">>),
     Some(<<"1", ".", "0", ".", "0", ".", "0", "/", "1", "2", "8">>)}

GoodRequest ==
    [snapshot |-> <<"s">>, src_ip |-> GoodIp, dst_ip |-> GoodIp,
     filter_name |-> <<"f">>, protocol |-> None, network_filter |-> Absent]

\* the good request and the requests that differ from it in one field
Requests ==
    {[GoodRequest EXCEPT !.snapshot = n] : n \in {<<>>, <<"s">>, <<"t">>}}
    \cup {[GoodRequest EXCEPT !.src_ip = ip] : ip \in Ips}
    \cup {[GoodRequest EXCEPT !.dst_ip = ip] : ip \in Ips}
    \cup {[GoodRequest EXCEPT !.filter_name = <<>>]}
    \cup {[GoodRequest EXCEPT !.protocol = p] : p \in Protocols}
    \cup {[GoodRequest EXCEPT !.network_filter = n] : n \in Prefixes}

\* no verification request in progress
VaIdle ==
    [pc |-> "idle", op |-> None, query_type |-> None, valid |-> FALSE,
     status |-> 0]

\* POST /verification/{reachability, acl, routing}: the request model is
\* validated, then the handler calls the service method and returns its
\* result, or answers 500 where the method raised
VerificationApi(query_type, r, left, fault, rows, d2, d3) ==
    /\ api.pc = "idle"
    /\ IF ~RequestValid(query_type, r)
       THEN /\ api' = [pc |-> "done", op |-> "VERIFY",
                       query_type |-> query_type, valid |-> FALSE,
                       status |-> 422]
            /\ UNCHANGED <<bf, vr>>
       ELSE LET t0 == vr.now
                t2 == t0 + d2
                t3 == t2 + d3
                v == verify(Begin(bf, left), query_type, r.snapshot, "n1",
                            "args", fault, rows, t0, t0, t2, t3)
            IN  /\ {t2, t3} \subseteq 0..MaxClock
                /\ bf' = End(v.bf)
                /\ vr' = [pc |-> IF v.raised THEN "raised" ELSE "returned",
                          now |-> v.now, result |-> v.result,
                          stage |-> v.stage, rows |-> rows]
                /\ api' = [pc |-> "done", op |-> "VERIFY",
                           query_type |-> query_type, valid |-> TRUE,
                           status |-> IF v.raised THEN 500 ELSE 200]

\* the response has been sent; the clock runs on
VerificationApiDone ==
    /\ api.pc = "done"
    /\ api' = VaIdle
    /\ vr' = [VrIdle EXCEPT !.now = vr.now]
    /\ bf' = [bf EXCEPT !.log = <<>>]

VerificationApiInit ==
    /\ fs = FsInit
    /\ up = UpIdle
    /\ api = VaIdle
    /\ nd = NdIdle
    /\ vr = VrIdle
    /\ bf = BfWithS

VerificationApiNext ==
    /\ UNCHANGED <<fs, up, nd>>
    /\ \/ /\ api.pc = "idle"
          /\ \E query_type \in QueryTypes, r \in Requests, left \in Lefts,
                fault \in Faults, rows \in {0, MaxRows}, d2 \in ClockSteps,
                d3 \in ClockSteps :
                VerificationApi(query_type, r, left, fault, rows, d2, d3)
       \/ VerificationApiDone

\* verification requests, one after the other
SpecVerificationApi == VerificationApiInit /\ [][VerificationApiNext]_vars

-----------------------------------------------------------------------------
(* POST and DELETE /snapshots for one name in two networks, files a and b *)

StagingFiles ==
    {[filename |-> <<"a">>, size |-> 1], [filename |-> <<"b">>, size |-> 1]}

\* files of one request, each of another name
MaxUpload == 2

StagingNext ==
    /\ UNCHANGED <<vr, nd>>
    /\ \/ \E network \in Networks, left \in {0, Enough} :
             PostBegin(<<"s">>, network, TRUE, left)
       \/ \E file \in StagingFiles :
             /\ up.n < MaxUpload
             /\ Append(up.configs_dir, file.filename) \notin up.touched
             /\ PostFile(file, "ok", FALSE)
       \/ \E left \in {0, Enough} : PostFinish(left, TRUE, FALSE)
       \/ \E network \in Networks :
             DeleteSnapshot(<<"s">>, network, Enough, FALSE)
       \/ RestDone

\* creations and deletions of snapshot s, one request after the other
SpecStaging == RestInit /\ [][StagingNext]_vars

-----------------------------------------------------------------------------
(* Concurrent uploads: save_uploaded_files of two requests, interleaving at
   the awaited reads *)

UploadRequests == {1, 2}

FileA == [filename |-> <<"a">>, size |-> 1]
FileB == [filename |-> <<"b">>, size |-> 1]
FileBig == [filename |-> <<"c">>, size |-> MAX_FILE_SIZE_BYTES + 1]

\* the files of a request: all valid, or with one over the per-file ceiling
FileLists == {<<FileA>>, <<FileA, FileB>>, <<FileBig>>, <<FileA, FileBig>>}

AllValid(files) ==
    \A k \in 1..Len(files) :
        /\ _sanitize_filename(files[k].filename).ok
        /\ files[k].size <= MAX_FILE_SIZE_BYTES

\* no upload in progress
UploadIdle ==
    [r \in UploadRequests |->
        [pc |-> "idle", name |-> <<>>, files |-> <<>>, valid |-> FALSE,
         written |-> {}, shared |-> FALSE, handed |-> {}]]

\* the requests in flight other than r that stage into the directory of name
Sharing(r, name) ==
    {q \in UploadRequests \ {r} : api[q].pc = "loop" /\ api[q].name = name}

\* save_uploaded_files of request r up to the first awaited read: the two
\* mkdir
UploadBegin(r, name, files) ==
    /\ api[r].pc = "idle"
    /\ LET snapshot_dir == SnapshotDir(name).path
           configs_dir == Append(snapshot_dir, ConfigsName)
       IN  /\ fs' = mkdir(mkdir(fs, snapshot_dir), configs_dir)
           /\ api' = [q \in UploadRequests |->
                        IF q = r
                        THEN [pc |-> "loop", name |-> name, files |-> files,
                              valid |-> AllValid(files), written |-> {},
                              shared |-> Sharing(r, name) # {}, handed |-> {}]
                        ELSE IF q \in Sharing(r, name)
                        THEN [api[q] EXCEPT !.shared = TRUE]
                        ELSE api[q]]

\* request r from the return of an awaited read to the next one: the size
\* check and the write of the file read; after the last file the method
\* returns and the handler hands the directory to the engine. A failure
\* runs cleanup_snapshot_dir and ends the request.
UploadResume(r) ==
    /\ api[r].pc = "loop"
    /\ LET file == Head(api[r].files)
           snapshot_dir == SnapshotDir(api[r].name).path
           configs_dir == Append(snapshot_dir, ConfigsName)
           file_path == Append(configs_dir, _sanitize_filename(file.filename).name)
           removed == cleanup_snapshot_dir(fs, api[r].name, [ok |-> TRUE, keep |-> {}])
           after == create(fs, file_path)
       IN  IF SizeCheck(file.size, 0) # None \/ configs_dir \notin fs.dirs
           THEN /\ fs' = removed
                /\ api' = [api EXCEPT ![r].pc = "failed"]
           ELSE /\ fs' = after
                /\ api' = [api EXCEPT
                      ![r].written = @ \cup {file_path},
                      ![r].files = Tail(@),
                      ![r].pc = IF Len(api[r].files) = 1 THEN "created" ELSE "loop",
                      ![r].handed = IF Len(api[r].files) = 1
                                    THEN {x \in after.files : IsUnder(x, snapshot_dir)}
                                    ELSE {}]

\* the response of request r has been sent
UploadDone(r) ==
    /\ api[r].pc \in {"failed", "created"}
    /\ api' = [api EXCEPT ![r] = UploadIdle[r]]
    /\ UNCHANGED fs

UploadsInit ==
    /\ fs = FsInit
    /\ up = UpIdle
    /\ bf = BfInit
    /\ vr = VrIdle
    /\ nd = NdIdle
    /\ api = UploadIdle

UploadsNext ==
    /\ UNCHANGED <<up, bf, vr, nd>>
    /\ \E r \in UploadRequests :
          \/ \E name \in RestNames, files \in FileLists : UploadBegin(r, name, files)
          \/ UploadResume(r)
          \/ UploadDone(r)

\* two uploads at a time, their steps interleaved at the awaited reads
SpecUploads == UploadsInit /\ [][UploadsNext]_vars

-----------------------------------------------------------------------------
(* Concurrent query requests on the event loop of one process *)

\* the requests in flight at once
RaceRequests == {1, 2}

\* the handles the query endpoints use
QueryOwners == {"topology_api", "verification_api"}

\* an engine that holds the snapshots s and t of network n1
BfBoth == [BfInit EXCEPT !.snapshots = {<<"n1", <<"s">>>>, <<"n1", <<"t">>>>}]

\* no request received
RaceIdle ==
    [r \in RaceRequests |-> [pc |-> "idle", owner |-> None, snapshot |-> NoSnapshot]]

\* the event loop runs no coroutine
LoopIdle == [loop |-> 0]

\* a call that yields to the event loop (the fault C26 must detect)
Sync_Yields(r) == 0

\* the coroutine the event loop runs after a call made by the handler of
\* r: the service methods are plain functions called without await, so the
\* handler keeps the loop until it returns
Sync(r) == r

\* the event loop may run a step of the handler of r: no coroutine is
\* running, or r's is
CanRun(r) == nd.loop = 0 \/ nd.loop = r

\* a request for snapshot_name arrives at an endpoint that uses the handle
\* of o and waits for the event loop
RaceArrive(r, o, snapshot_name) ==
    /\ api[r].pc = "idle"
    /\ api' = [api EXCEPT ![r] = [pc |-> "pending", owner |-> o,
                                  snapshot |-> snapshot_name]]
    /\ UNCHANGED <<bf, nd>>

\* the handler of r up to the query: set_network, then set_snapshot
RaceSelect(r, answered) ==
    /\ api[r].pc = "pending"
    /\ CanRun(r)
    /\ LET b == [bf EXCEPT !.left = IF answered THEN Enough ELSE 0, !.log = <<>>]
           p == Select(b, api[r].owner, TRUE, "n1", api[r].snapshot)
       IN  /\ bf' = [p.bf EXCEPT !.left = 0]
           /\ api' = [api EXCEPT ![r].pc = IF p.ok THEN "selected" ELSE "failed"]
           /\ nd' = [loop |-> Sync(r)]

\* the query of the handler of r, evaluated on the selection of its handle
RaceQuery(r, answered) ==
    /\ api[r].pc = "selected"
    /\ CanRun(r)
    /\ LET b == [bf EXCEPT !.left = IF answered THEN Enough ELSE 0]
           q == query(b, api[r].owner, "nodeProperties", "n1", api[r].snapshot)
       IN  /\ bf' = [q.bf EXCEPT !.left = 0]
           /\ api' = [api EXCEPT ![r].pc = IF q.ok THEN "dispatched" ELSE "failed"]
           /\ nd' = [loop |-> Sync(r)]

\* the handler of r returns its response; the event loop is free
RaceReturn(r) ==
    /\ api[r].pc \in {"dispatched", "failed"}
    /\ CanRun(r)
    /\ api' = [api EXCEPT ![r] = RaceIdle[r]]
    /\ nd' = LoopIdle
    /\ bf' = [bf EXCEPT !.log = <<>>]

RaceInit ==
    /\ fs = FsInit
    /\ up = UpIdle
    /\ vr = VrIdle
    /\ api = RaceIdle
    /\ nd = LoopIdle
    /\ bf = BfBoth

RaceNext ==
    /\ UNCHANGED <<fs, up, vr>>
    /\ \E r \in RaceRequests :
          \/ \E o \in QueryOwners, snapshot_name \in ProcNames :
                RaceArrive(r, o, snapshot_name)
          \/ \E answered \in BOOLEAN : RaceSelect(r, answered)
          \/ \E answered \in BOOLEAN : RaceQuery(r, answered)
          \/ RaceReturn(r)

\* two query requests at a time, their steps taken as the event loop allows
SpecRace == RaceInit /\ [][RaceNext]_vars

-----------------------------------------------------------------------------
(* BatfishService: accesses to the session property and close() calls *)

\* Session objects constructed in a run
MaxSessions == 5

\* no access made yet
SsIdle == [op |-> None, owner |-> None, got |-> 0, raised |-> FALSE]

\* one read of service.session on the service object of o; the engine
\* answers the construction of a Session (left = 1) or refuses it
Access(o, left) ==
    /\ bf.made < MaxSessions
    /\ LET s == session(Begin(bf, left), o)
       IN  /\ bf' = [End(s.bf) EXCEPT !.log = <<>>]
           /\ api' = [op |-> "access", owner |-> o,
                      got |-> IF s.ok THEN s.bf.ids[o] ELSE 0,
                      raised |-> ~s.ok]

\* service.close() on the service object of o
Close(o) ==
    /\ bf' = close(bf, o)
    /\ api' = [op |-> "close", owner |-> o, got |-> 0, raised |-> FALSE]

SessionInit ==
    /\ fs = FsInit
    /\ up = UpIdle
    /\ bf = BfInit
    /\ api = SsIdle
    /\ vr = VrIdle
    /\ nd = NdIdle

SessionNext ==
    /\ UNCHANGED <<fs, up, vr, nd>>
    /\ \/ \E o \in Owners, left \in {0, 1} : Access(o, left)
       \/ \E o \in Owners : Close(o)

\* accesses and close() calls on the three service objects, in any order
SpecSession == SessionInit /\ [][SessionNext]_vars

-----------------------------------------------------------------------------
(* SnapshotService: a creation followed at once by the details *)

\* no round trip made yet
RtIdle == [pc |-> "idle", created |-> <<>>, fetched |-> <<>>]

\* what the engine holds about the snapshot created: up to MaxRows devices
\* and up to MaxRows files that did not pass
Answers == [devices : 0..MaxRows, failed : 0..MaxRows]

\* create_snapshot, then get_snapshot_details of the same snapshot with no
\* operation in between; the engine holds the same rows for both
RoundTrip(name, net, left_c, left_d, accepts, answer) ==
    /\ api.pc = "idle"
    /\ LET c == create_snapshot(Begin(get_batfish_service(bf), left_c), fs,
                                ProcConfigDir, name, net, accepts, answer)
           d == get_snapshot_details(Begin(End(c.bf), left_d), name, net,
                                     answer)
       IN  IF c.ok
           THEN /\ bf' = [End(d.bf) EXCEPT !.log = <<>>]
                /\ api' = [pc |-> "fetched", created |-> c.snapshot,
                           fetched |-> d.snapshot]
           ELSE /\ bf' = [End(c.bf) EXCEPT !.log = <<>>]
                /\ api' = [pc |-> "refused", created |-> <<>>,
                           fetched |-> <<>>]

\* the caller has taken the records
RoundTripDone ==
    /\ api.pc # "idle"
    /\ api' = RtIdle
    /\ UNCHANGED bf

RoundTripInit ==
    /\ fs = FsStaged
    /\ up = UpIdle
    /\ bf = BfInit
    /\ api = RtIdle
    /\ vr = VrIdle
    /\ nd = NdIdle

RoundTripNext ==
    /\ UNCHANGED <<fs, up, vr, nd>>
    /\ \/ \E name \in ProcNames, net \in Networks, left_c \in Lefts,
             left_d \in Lefts, accepts \in BOOLEAN, answer \in Answers :
             RoundTrip(name, net, left_c, left_d, accepts, answer)
       \/ RoundTripDone

\* round trips through the snapshot service, one after the other
SpecRoundTrip == RoundTripInit /\ [][RoundTripNext]_vars

-----------------------------------------------------------------------------
(* Answers of any number of rows, zero included, to the six questions *)

\* one list operation of the topology service on an answer of rows rows,
\* open of them without an endpoint
List(op, snapshot_name, left, rows, open, bad) ==
    /\ nd.pc = "idle"
    /\ vr.pc = "idle"
    /\ open <= rows
    /\ LET l == TopologyList(Begin(bf, left), op, snapshot_name, "n1", rows,
                             open, bad)
       IN  /\ bf' = [End(l.bf) EXCEPT !.log = <<>>]
           /\ nd' = [pc |-> "returned", op |-> op, rows |-> rows,
                     raised |-> l.raised, stage |-> l.stage, list |-> l.list]

\* the caller has taken the list
ListDone ==
    /\ nd.pc # "idle"
    /\ nd' = LsIdle
    /\ UNCHANGED bf

AnswersInit ==
    /\ fs = FsInit
    /\ up = UpIdle
    /\ api = ApiIdle
    /\ nd = LsIdle
    /\ vr = VrIdle
    /\ bf = BfWithS

AnswersNext ==
    \/ /\ UNCHANGED <<fs, up, api, nd>>
       /\ nd.pc = "idle"
       /\ \/ \E query_type \in QueryTypes, left \in Lefts, fault \in Faults,
                rows \in 0..MaxRows, d2 \in ClockSteps :
                Verify(query_type, <<"s">>, left, fault, rows, 0, d2, 0)
          \/ VerifyDone
    \/ /\ UNCHANGED <<fs, up, api, vr>>
       /\ \/ \E op \in ListOps, snapshot_name \in ProcNames, left \in Lefts,
                rows \in 0..MaxRows, open \in 0..MaxRows, bad \in BOOLEAN :
                List(op, snapshot_name, left, rows, open, bad)
          \/ ListDone

\* list and verification calls, one after the other
SpecAnswers == AnswersInit /\ [][AnswersNext]_vars

-----------------------------------------------------------------------------
(* Node-detail calls *)

\* the Active cells of interface answers of up to MaxRows rows
CellLists == UNION {[1..n -> ActiveCells] : n \in 0..MaxRows}

NodeDetails(snapshot_name, left, found, reported, cells) ==
    /\ nd.pc = "idle"
    /\ LET d == get_node_details(Begin(bf, left), snapshot_name, "n1", found,
                                 reported, cells)
       IN  /\ bf' = [End(d.bf) EXCEPT !.log = <<>>]
           /\ nd' = [pc |-> "returned", raised |-> d.raised,
                     detail |-> d.detail, cells |-> cells,
                     reported |-> reported, found |-> found,
                     answered |-> \E k \in 1..Len(d.bf.log) :
                                     d.bf.log[k].op = "nodeProperties"]

\* the GET routes of topology_api's router, below /api/topology
TopologyRoutes == {<<"nodes">>, <<"edges">>, <<"interfaces">>, <<>>}

\* hostnames of the requests, and the path of the details of one
Hostnames == {"r1", "r2"}
NodeDetailsPath(hostname) == <<"nodes", hostname, "details">>

\* the words of the detail of the framework's answer to a path without route
NotFoundDetail == <<"Not", "Found">>

\* GET /api/topology/nodes/{hostname}/details: the router has no route of
\* that path, so the framework answers 404 and get_node_details is not run
GetNodeDetails(hostname) ==
    /\ api.pc = "idle"
    /\ NodeDetailsPath(hostname) \notin TopologyRoutes
    /\ api' = [Respond(api, 404, None) EXCEPT !.op = "NODE_DETAILS",
                                              !.hostname = hostname,
                                              !.body = <<NotFoundDetail>>]
    /\ UNCHANGED <<bf, nd>>

\* the response has been sent
GetNodeDetailsDone ==
    /\ api.pc = "done"
    /\ api' = ApiIdle
    /\ UNCHANGED <<bf, nd>>

\* the caller has taken the result
NodeDone ==
    /\ nd.pc # "idle"
    /\ nd' = NdIdle
    /\ UNCHANGED bf

NodeInit ==
    /\ fs = FsInit
    /\ up = UpIdle
    /\ api = ApiIdle
    /\ vr = VrIdle
    /\ nd = NdIdle
    /\ bf = BfWithS

NodeNext ==
    \/ /\ UNCHANGED <<fs, up, api, vr>>
       /\ api.pc = "idle"
       /\ \/ \E snapshot_name \in ProcNames, left \in Lefts, found \in BOOLEAN,
                reported \in {0, MaxRows}, cells \in CellLists :
                NodeDetails(snapshot_name, left, found, reported, cells)
          \/ NodeDone
    \/ /\ UNCHANGED <<fs, up, vr>>
       /\ nd.pc = "idle"
       /\ \/ \E hostname \in Hostnames : GetNodeDetails(hostname)
          \/ GetNodeDetailsDone

\* node-detail calls, one after the other
SpecNode == NodeInit /\ [][NodeNext]_vars

-----------------------------------------------------------------------------
(* Claims about upload intake *)

\* a name holding a path separator or a character outside [A-Za-z0-9_.-]
HasSeparatorOrDisallowed(name) ==
    \E i \in 1..Len(name) : name[i] = "/" \/ name[i] \notin FileClass

\* the staging directory of a snapshot name: the child of the root so named
StagingDirOf(snapshot_name) == Append(TempDir, snapshot_name)

\* C1: once the loop has taken a file whose name holds a path separator or a
\* character outside [A-Za-z0-9_.-], the call is rejected and (where the
\* removal itself did not fail) no staging directory of the snapshot name
\* exists.
C1_BadNameRejectsBatch ==
    (up.n >= 1 /\ HasSeparatorOrDisallowed(up.cur.filename)) =>
        /\ up.pc = "returned"
        /\ up.result = "IOError"
        /\ up.rm = "removed" => ~exists(fs, Resolve(TempDir, up.snapshot_name))

C3_WritesStayInside ==
    \A p \in up.touched :
        /\ IsUnder(p, TempDir)
        /\ \/ p = StagingDirOf(up.snapshot_name)
           \/ IsUnder(p, Append(StagingDirOf(up.snapshot_name), ConfigsName))

\* the step that runs the loop body on the next file of the request
IsFileStep == up.pc = "loop" /\ up'.n = up.n + 1

-----------------------------------------------------------------------------
(* Claims about POST /snapshots *)

\* 1 to 100 characters, each of [A-Za-z0-9_-]
InNameFormat(name) ==
    /\ Len(name) >= 1
    /\ Len(name) <= NAME_MAX_LEN
    /\ \A i \in 1..Len(name) : name[i] \in NameClass

\* C4: the handler lets a snapshot name through validation if and only if it
\* is 1 to 100 characters of [A-Za-z0-9_-]; for every other name the step
\* that takes the request answers 400 and changes neither the filesystem
\* nor the upload state nor anything of the engine and its handles.
C4_NameValidation ==
    [][(api.pc = "idle" /\ api'.pc # "idle") =>
        IF InNameFormat(api'.snapshotName)
        THEN api'.code # "INVALID_SNAPSHOT_NAME"
        ELSE /\ api'.pc = "done"
             /\ api'.status = 400
             /\ api'.code = "INVALID_SNAPSHOT_NAME"
             /\ fs' = fs /\ up' = up /\ bf' = bf]_vars

-----------------------------------------------------------------------------
(* Claims about the session handles *)

\* C6: at most one session handle exists, none exists before the process
\* serves its first request (none is made at import), and every call the
\* engine evaluates arrives on the handle of the global service object.
C6_OneLazyHandle ==
    /\ Cardinality(bf.held) <= 1
    /\ bf.phase # "serving" => bf.held = {}
    /\ \A i \in 1..Len(bf.log) : bf.log[i].owner = "global"

\* C7 as claimed: every query and every snapshot-scoped command reaches the
\* engine on a handle whose selected network and selected snapshot are the
\* pair named by the operation that dispatched it.
C7_SelectsBeforeDispatch ==
    \A i \in 1..Len(bf.log) :
        bf.log[i].kind \in {"query", "command"} =>
            /\ bf.log[i].sel_network = bf.log[i].network
            /\ bf.log[i].sel_snapshot = bf.log[i].snapshot

\* C7 as amended: every call reaches the engine on a handle whose selected
\* network is the one named by its operation; a query also finds the
\* snapshot named by its operation selected, whatever selection the handle
\* carried before; the commands init_snapshot and delete_snapshot do not
\* select the snapshot but name it in their argument.
C7_QueriesSelectFirst ==
    \A i \in 1..Len(bf.log) :
        /\ bf.log[i].sel_network = bf.log[i].network
        /\ bf.log[i].kind = "query" =>
              bf.log[i].sel_snapshot = bf.log[i].snapshot
        /\ bf.log[i].kind = "command" => bf.log[i].snapshot # NoSnapshot

\* C7 witness: a query was evaluated for an operation that found another
\* pair selected on its handle, left there by an earlier operation
C7_Witness ==
    \E i \in 1..Len(bf.log) :
        /\ bf.log[i].kind = "query"
        /\ bf.log[i].stale
        /\ bf.log[i].owner = "topology_api"

-----------------------------------------------------------------------------
(* Claims about verification results *)

\* C8: a verification call never raises: it returns a result, and where
\* something failed the result has status FAILED, an error message, the
\* query id, the query type, the echoed parameters and an execution time
\* that is not negative.
C8_FailuresAreCaptured ==
    vr.pc # "idle" =>
        /\ vr.pc = "returned"
        /\ vr.result # Absent
        /\ vr.stage # None =>
              /\ vr.result[1].status = "FAILED"
              /\ vr.result[1].error_message # Absent
              /\ vr.result[1].query_type \in QueryTypes
              /\ vr.result[1].parameters.snapshot \in ProcNames
              /\ vr.result[1].execution_time_ms >= 0

\* C9: a result with status SUCCESS has exactly the payload of its query
\* type populated (flow_traces for reachability, acl_results for acl,
\* route_entries for routing) and no error message; a result with status
\* FAILED has no payload populated and an error message.
C9_PayloadsMatchStatus ==
    vr.result # Absent =>
        LET r == vr.result[1]
        IN  /\ r.status \in {"SUCCESS", "FAILED"}
            /\ r.status = "SUCCESS" =>
                  /\ (r.flow_traces # Absent) <=> (r.query_type = "reachability")
                  /\ (r.acl_results # Absent) <=> (r.query_type = "acl")
                  /\ (r.route_entries # Absent) <=> (r.query_type = "routing")
                  /\ r.error_message = Absent
            /\ r.status = "FAILED" =>
                  /\ r.flow_traces = Absent
                  /\ r.acl_results = Absent
                  /\ r.route_entries = Absent
                  /\ r.error_message # Absent

\* C9 witness: a routing query succeeded on an answer with rows
C9_Witness ==
    /\ vr.result # Absent
    /\ vr.result[1].status = "SUCCESS"
    /\ vr.result[1].query_type = "routing"
    /\ vr.result[1].route_entries # Absent
    /\ Len(vr.result[1].route_entries[1]) >= 1

-----------------------------------------------------------------------------
(* Claims about node details *)

\* C10: in every NodeDetail returned, status is "active" exactly when some
\* interface of the detail is active, "inactive" exactly when there are
\* interfaces and none is active, "unknown" exactly when there is no
\* interface; no other status occurs.
C10_StatusFromInterfaces ==
    nd.detail # <<>> =>
        LET d == nd.detail[1]
            n == Len(d.interfaces)
            some_active == \E k \in 1..n : d.interfaces[k].active
        IN  /\ d.status \in {"active", "inactive", "unknown"}
            /\ (d.status = "active") <=> some_active
            /\ (d.status = "inactive") <=> (n > 0 /\ ~some_active)
            /\ (d.status = "unknown") <=> (n = 0)
            /\ \A k \in 1..n : d.interfaces[k].active <=> (nd.cells[k] = "true")

\* C10 witness: a detail of status active with an inactive interface beside
\* the active one
C10_Witness ==
    /\ nd.detail # <<>>
    /\ nd.detail[1].status = "active"
    /\ \E k \in 1..Len(nd.detail[1].interfaces) :
          ~nd.detail[1].interfaces[k].active

\* C11: every node detail returned carries an interface_count equal to the
\* length of its interfaces list, which is the number of rows the interface
\* query returned, whatever count the row of the node query reports
C11_CountIsListLength ==
    nd.detail # <<>> =>
        /\ nd.detail[1].interface_count = Len(nd.detail[1].interfaces)
        /\ nd.detail[1].interface_count = Len(nd.cells)

\* C11 witness: a detail returned while the row of the node query reports
\* another count than the interface query has rows
C11_Witness ==
    /\ nd.detail # <<>>
    /\ nd.reported # Len(nd.cells)
    /\ Len(nd.cells) > 0

-----------------------------------------------------------------------------
(* Claims about answers without rows *)

\* a verification call whose question was answered, by a frame of no row
ZeroRowsAnswered ==
    /\ vr.pc # "idle"
    /\ vr.rows = 0
    /\ vr.stage \notin {"selection", "constraints", "dispatch", "frame"}

\* a list operation whose question was answered, by a frame of no row
ZeroRowsListed ==
    /\ nd.pc # "idle"
    /\ nd.rows = 0
    /\ nd.stage # "dispatch"

\* the payload of the result's own type is the empty list
EmptyPayload(r) ==
    CASE r.query_type = "reachability" -> r.flow_traces = Some(<<>>)
      [] r.query_type = "acl" -> r.acl_results = Some(<<>>)
      [] r.query_type = "routing" -> r.route_entries = Some(<<>>)

\* C12 as stated: for each of the six questions, an answer of zero rows is
\* normalized to the empty list and nothing is raised; for the three
\* verification questions the result has status SUCCESS and an empty
\* payload list.
C12_EmptyAnswers ==
    /\ ZeroRowsListed => nd.raised = None /\ nd.list = Some(<<>>)
    /\ ZeroRowsAnswered =>
          /\ vr.result # Absent
          /\ vr.result[1].status = "SUCCESS"
          /\ EmptyPayload(vr.result[1])

\* the part of it that does not depend on the clock: no answer of zero rows
\* fails in a normalizer, and the only failure left to a verification call
\* so answered is the rejected construction of its SUCCESS result (the
\* negative execution time of C8)
ZeroRowsNormalized ==
    /\ ZeroRowsListed => nd.raised = None /\ nd.list = Some(<<>>)
    /\ ZeroRowsAnswered =>
          /\ vr.stage \in {None, "validation"}
          /\ vr.stage = None =>
                /\ vr.pc = "returned"
                /\ vr.result # Absent
                /\ vr.result[1].status = "SUCCESS"
                /\ EmptyPayload(vr.result[1])

-----------------------------------------------------------------------------
(* Claims about the snapshot endpoints *)

\* a step that takes in a POST /snapshots request for a snapshot the engine
\* holds since an earlier request created it
PostOfExisting ==
    /\ api.pc = "idle"
    /\ api'.op = "POST"
    /\ <<api'.networkName, api'.snapshotName>> \in bf.snapshots

\* C13: a POST /snapshots for a (name, network) created before is answered
\* 409; it stages no file, runs no engine initialization and leaves the
\* snapshot and the staged files as they were.
C13_DuplicateRejected ==
    [][PostOfExisting =>
          /\ api'.pc = "done"
          /\ api'.status = 409
          /\ fs' = fs
          /\ bf'.snapshots = bf.snapshots]_vars

\* C14: the record fetched right after a creation has status COMPLETE and
\* the device_count and parse_errors of the record the creation returned.
C14_RoundTrip ==
    (api.pc = "fetched" /\ api.fetched # <<>>) =>
        /\ api.fetched[1].status = "COMPLETE"
        /\ api.fetched[1].device_count = api.created[1].device_count
        /\ api.fetched[1].parse_errors = api.created[1].parse_errors

\* a step that takes in and answers a DELETE, or a GET, of one snapshot
DeleteStep == api.pc = "idle" /\ api'.op = "DELETE"
GetStep == api.pc = "idle" /\ api'.op = "GET"

\* the snapshot the request in api' names, and its staging directory
Named == <<api'.networkName, api'.snapshotName>>
NamedDir == Resolve(TempDir, api'.snapshotName)

\* the engine was asked to delete a snapshot during the step
DeleteIssued ==
    \E k \in 1..Len(bf'.log) : bf'.log[k].op = "delete_snapshot"

\* what C15 says of a request for a snapshot the engine does not hold: the
\* DELETE is answered 404 without a delete on the engine or a change to the
\* staged files, and the GET is answered 404 (as after a 204)
AbsentIs404 ==
    /\ (DeleteStep /\ Named \notin bf.snapshots) =>
          /\ api'.status = 404
          /\ ~DeleteIssued
          /\ fs' = fs
    /\ (GetStep /\ Named \notin bf.snapshots) => api'.status = 404

-----------------------------------------------------------------------------
(* Claims about the health endpoint *)

\* a step that takes in and answers a GET /health
HealthStep == api.pc = "idle" /\ api'.op = "HEALTH"

\* C16: a GET /health at which the handle cannot be created (none is held
\* and the engine refuses the connection) is answered 503 with code
\* BATFISH_CONNECTION_ERROR, never 200 and never 500.
C16_RefusedIs503 ==
    [][(HealthStep /\ "global" \notin bf'.held) =>
          /\ api'.status = 503
          /\ api'.code = "BATFISH_CONNECTION_ERROR"
          /\ api'.body = <<>>]_vars

\* C16 witness: a GET /health answered 503 while no handle is held
C16_Witness ==
    /\ api.op = "HEALTH"
    /\ api.status = 503
    /\ "global" \notin bf.held

-----------------------------------------------------------------------------
(* Claims about the status codes of the snapshot endpoints *)

\* C18: GET /snapshots/{name} answers 404 exactly when the engine does not
\* hold the snapshot; a snapshot it holds is answered 200, or 503 / 500
\* where the engine cannot be reached or fails.
C18_NotFoundOnlyWhenAbsent ==
    [][GetStep =>
          /\ (api'.status = 404) <=> (Named \notin bf.snapshots)
          /\ api'.status \in {200, 404, 500, 503}]_vars

\* a step that answers a POST /snapshots
PostAnswered == api'.op = "POST" /\ api.pc # "done" /\ api'.pc = "done"

\* C19: a POST /snapshots rejected for its input (the snapshot name, an
\* empty file set, a file name, a size ceiling) is answered with a status of
\* the 400 class, never 500 or 503.
C19_InputErrorsAre4xx ==
    [][(/\ PostAnswered
        /\ \/ api'.code \in {"INVALID_SNAPSHOT_NAME", "NO_CONFIG_FILES"}
           \/ up'.error \in {"filename", "file_size", "total_size"}) =>
          api'.status \in 400..499]_vars

-----------------------------------------------------------------------------
(* Claims about the not-found condition of node details *)

\* the service half of C20: get_node_details raises KeyError exactly when
\* the node query was answered, with zero rows
NotFoundIffNoRow ==
    nd.pc = "returned" =>
        ((nd.raised = "KeyError") <=> (nd.answered /\ ~nd.found))

\* C20: the aggregation reports not-found exactly when the node query for
\* the hostname returns zero rows, and GET /topology/nodes/{hostname}/details
\* answers that with 404 and the hostname in the detail, every other failure
\* with 500.
C20_NotFoundIs404 ==
    /\ NotFoundIffNoRow
    /\ (api.op = "NODE_DETAILS" /\ api.pc = "done") =>
          /\ api.status \in {200, 404, 500}
          /\ api.status = 404 =>
                \E k \in 1..Len(api.body[1]) : api.body[1][k] = api.hostname

-----------------------------------------------------------------------------
(* Claims about the lifecycle of the session handle *)

\* C21: a handle is created only by an access made while none is held;
\* while one is held every access returns that same handle; close() leaves
\* none held, so that the next access creates a fresh one; an access whose
\* creation fails raises and leaves none held.
C21_LazyLifecycle ==
    [][LET o == api'.owner
       IN  /\ (api'.op = "access" /\ o \in bf.held) =>
                 /\ ~api'.raised
                 /\ api'.got = bf.ids[o]
                 /\ bf'.ids = bf.ids
                 /\ bf'.made = bf.made
           /\ (api'.op = "access" /\ o \notin bf.held /\ ~api'.raised) =>
                 /\ o \in bf'.held
                 /\ bf'.made = bf.made + 1
                 /\ api'.got = bf'.ids[o]
                 /\ api'.got > bf.made
                 /\ \A q \in Owners \ {o} : bf'.ids[q] = bf.ids[q]
           /\ (api'.op = "access" /\ api'.raised) =>
                 /\ o \notin bf.held
                 /\ o \notin bf'.held
                 /\ bf'.made = bf.made
           /\ api'.op = "close" =>
                 /\ o \notin bf'.held
                 /\ bf'.made = bf.made
                 /\ \A q \in Owners \ {o} : bf'.ids[q] = bf.ids[q]
           /\ bf'.made # bf.made => api'.op = "access"]_vars

\* C21 witness: an access has returned a handle created after a close()
\* (the fourth Session of the process or a later one)
C21_Witness ==
    /\ api.op = "access"
    /\ ~api.raised
    /\ api.got >= 4
    /\ api.owner \in bf.held

-----------------------------------------------------------------------------
(* Claims about the verification endpoints *)

\* a step that takes in and answers a verification request
VerifyStep == api.pc = "idle" /\ api'.op = "VERIFY"

\* C22: a verification request that fails parameter validation selects no
\* network or snapshot and dispatches no query; every request that passes
\* it is executed and ends with a result whose status is SUCCESS or FAILED.
C22_RequestLifecycle ==
    [][VerifyStep =>
          /\ ~api'.valid =>
                /\ bf' = bf
                /\ bf'.log = <<>>
                /\ vr'.result = Absent
          /\ api'.valid =>
                /\ vr'.result # Absent
                /\ vr'.result[1].status \in {"SUCCESS", "FAILED"}]_vars

\* the part of it that holds: a request rejected by its model reaches
\* nothing, and a request that is executed ends with a SUCCESS or FAILED
\* result unless the validation of the FAILED record itself raises (the
\* negative execution time of C8), which the handler answers 500
RequestLifecycleButClock ==
    [][VerifyStep =>
          /\ ~api'.valid =>
                /\ api'.status = 422
                /\ bf' = bf
                /\ bf'.log = <<>>
                /\ vr'.result = Absent
          /\ api'.valid =>
                \/ /\ api'.status = 200
                   /\ vr'.result # Absent
                   /\ vr'.result[1].status \in {"SUCCESS", "FAILED"}
                \/ /\ api'.status = 500
                   /\ vr'.result = Absent
                   /\ vr'.stage # None
                   /\ vr'.now < vr.now]_vars

-----------------------------------------------------------------------------
(* Claims about the staged files of a creation *)

\* a POST /snapshots answered with a failure after save_uploaded_files was
\* entered
PostFailedAfterStaging ==
    /\ api.pc = "done"
    /\ api.op = "POST"
    /\ up.pc # "idle"
    /\ api.status # 201

\* C23: a creation request that fails after staging began, in the staging
\* of a file or in the engine initialization, leaves no staged directory
\* of that snapshot name.
C23_FailureLeavesNoDirectory ==
    PostFailedAfterStaging => SnapshotDir(api.snapshotName).path \notin fs.dirs

\* the part of it that holds: a failure inside save_uploaded_files leaves
\* no directory unless the removal itself failed
StagingFailureCleansUp ==
    (PostFailedAfterStaging /\ up.error # None /\ up.rm # "failed") =>
        SnapshotDir(api.snapshotName).path \notin fs.dirs

-----------------------------------------------------------------------------
(* Claims about the edge list and the aggregate *)

\* both endpoint cells of row k of the answer are present
BothPresent(k) ==
    nd.df[k].Interface.kind # "None" /\ nd.df[k].Remote_Interface.kind # "None"

\* the row of the answer that the j-th row with both endpoints is
PresentRow(j) ==
    CHOOSE k \in 1..Len(nd.df) :
        BothPresent(k) /\ Cardinality({m \in 1..k : BothPresent(m)}) = j

\* every cell of the answer is None or an Interface object of the engine
EngineCells ==
    \A k \in 1..Len(nd.df) :
        {nd.df[k].Interface.kind, nd.df[k].Remote_Interface.kind}
            \subseteq {"None", "Interface"}

\* C24: get_layer3_edges returns, in row order, one Edge per row of the
\* answer with both endpoint cells present, carrying the hostname and the
\* interface name of both; a row missing an endpoint gives no Edge and does
\* not fail the call, and no Edge has a defaulted (empty) endpoint value.
C24_EdgesOfCompleteRows ==
    (nd.pc = "returned" /\ nd.op = "get_layer3_edges" /\ nd.answered) =>
        /\ EngineCells => nd.raised = None
        /\ nd.raised = None =>
              /\ Len(nd.edges) = Cardinality({k \in 1..Len(nd.df) : BothPresent(k)})
              /\ \A j \in 1..Len(nd.edges) :
                    LET row == nd.df[PresentRow(j)]
                        e == nd.edges[j]
                    IN  /\ e.source_hostname = row.Interface.hostname
                        /\ e.source_interface = row.Interface.interface
                        /\ e.target_hostname = row.Remote_Interface.hostname
                        /\ e.target_interface = row.Remote_Interface.interface
                        /\ <<>> \notin {e.source_hostname, e.source_interface,
                                         e.target_hostname, e.target_interface}

\* C24 witness: an answer of three rows, the middle one missing an
\* endpoint, has given the two edges of the first and the third row
C24_Witness ==
    /\ nd.pc = "returned"
    /\ nd.op = "get_layer3_edges"
    /\ nd.raised = None
    /\ Len(nd.df) = 3
    /\ BothPresent(1) /\ ~BothPresent(2) /\ BothPresent(3)
    /\ Len(nd.edges) = 2
    /\ nd.edges[2].source_interface = Rep("e", 3)

\* the number of records of the fetched interface list with hostname h
RecordsOf(h) == Cardinality({k \in 1..Len(nd.ifaces) : nd.ifaces[k] = h})

RECURSIVE SumOfCounts(_)
SumOfCounts(nodes) ==
    IF nodes = <<>> THEN 0
    ELSE Head(nodes).interfaces_count + SumOfCounts(Tail(nodes))

\* C25: in the aggregate of get_topology every device's interfaces_count
\* is the number of records of the separately fetched interface list with
\* that device's hostname, and the counts sum to no more than the length of
\* that list.
C25_CountsMatchInterfaceList ==
    (nd.pc = "returned" /\ nd.op = "get_topology" /\ nd.raised = None) =>
        /\ \A k \in 1..Len(nd.nodes) :
              nd.nodes[k].interfaces_count = RecordsOf(nd.nodes[k].hostname)
        /\ SumOfCounts(nd.nodes) <= Len(nd.ifaces)

\* C25 witness: two devices with two and one interface, both counted
C25_Witness ==
    /\ nd.pc = "returned"
    /\ nd.op = "get_topology"
    /\ nd.raised = None
    /\ Len(nd.nodes) = 2
    /\ nd.nodes[1].interfaces_count = 2
    /\ nd.nodes[2].interfaces_count = 1

-----------------------------------------------------------------------------
(* Claims about concurrent requests *)

\* request q waits for the handle on which request r has made its
\* selection and not yet dispatched its query, and asks for another snapshot
SelectedAndWaiting(r, q) ==
    /\ r # q
    /\ api[r].pc = "selected"
    /\ api[q].pc = "pending"
    /\ api[q].owner = api[r].owner
    /\ api[q].snapshot # api[r].snapshot

\* C26: two concurrent requests of one process that select different
\* snapshots can interleave: between the selection of one and the dispatch
\* of its query the selection of the other can take place, so that the
\* query is dispatched while the other request's snapshot is selected.
C26_SelectionCanIntervene ==
    \A r \in RaceRequests, q \in RaceRequests :
        SelectedAndWaiting(r, q) => ENABLED RaceSelect(q, TRUE)

\* C26 as amended: every query is dispatched while the network and the
\* snapshot of its own request are the ones selected on its handle.
C26_DispatchUnderOwnSelection ==
    \A k \in 1..Len(bf.log) :
        /\ bf.log[k].sel_snapshot = bf.log[k].snapshot
        /\ bf.log[k].sel_network = bf.log[k].network

\* C26 witness: the query of one request has been dispatched while another
\* request for a different snapshot on the same handle is waiting
C26_Witness ==
    \E r \in RaceRequests, q \in RaceRequests :
        /\ r # q
        /\ api[r].pc = "dispatched"
        /\ api[q].pc = "pending"
        /\ api[q].owner = api[r].owner
        /\ api[q].snapshot # api[r].snapshot
        /\ Len(bf.log) = 1
        /\ bf.log[1].snapshot = api[r].snapshot

\* request r has not failed, and the files it has staged are on disk
\* (while it stages) or were all handed to the engine (once created)
Unharmed(r) ==
    /\ api[r].pc # "failed"
    /\ api[r].pc = "loop" => api[r].written \subseteq fs.files
    /\ api[r].pc = "created" => api[r].written \subseteq api[r].handed

\* C28: of two uploads that run concurrently for the same snapshot name, a
\* request whose own files are all valid is never made to fail and never
\* loses a file it has staged through the failure cleanup of the other.
C28_ValidUploadUnharmed ==
    \A r \in UploadRequests : api[r].valid => Unharmed(r)

\* C28 as amended: a request whose own files are all valid is unharmed as
\* long as no other request in flight at the same time names its snapshot.
C28_UnharmedUnlessSameName ==
    \A r \in UploadRequests : (api[r].valid /\ ~api[r].shared) => Unharmed(r)

\* C28 witness: a valid request has staged a file and goes on while the
\* other request, for another name, has failed and run its cleanup
C28_Witness ==
    \E r \in UploadRequests, q \in UploadRequests :
        /\ api[r].pc = "loop"
        /\ api[r].valid
        /\ ~api[r].shared
        /\ api[r].written # {}
        /\ api[q].pc = "failed"
        /\ api[q].name # api[r].name

-----------------------------------------------------------------------------
(* Claims about what a creation hands to the engine *)

\* a POST /snapshots has been answered 201
Created == api.pc = "done" /\ api.op = "POST" /\ api.status = 201

\* C27: at every successful creation the directory handed to the engine
\* holds exactly the files uploaded in that request, none of an earlier
\* request.
C27_OnlyThisRequestsFiles ==
    Created =>
        {q \in fs.files : IsUnder(q, up.snapshot_dir)} = up.touched \cap fs.files

\* C29: the config_file_count of the record a successful creation returns
\* is the number of configuration files staged for that request.
C29_CountIsStagedFiles ==
    Created => api.body[1].config_file_count = up.saved_files

-----------------------------------------------------------------------------
(* Claims about query ids *)

\* C30: any two verification calls of one process, of the same or of
\* different query types and however close in time, get different query
\* ids.
C30_QueryIdsUnique ==
    \A i \in 1..Len(nd.ids), j \in 1..Len(nd.ids) :
        i # j => nd.ids[i] # nd.ids[j]

====
